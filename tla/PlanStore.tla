----------------------------- MODULE PlanStore -----------------------------
(***************************************************************************)
(* The ZooKeeper state that placement-plan_apply, placement-plan_commit    *)
(* and crontab_autocommit share: the service instances and the jobs        *)
(* plan_add, plan_del and plan_newlayer, whose meta attributes are the     *)
(* lists of what a placement plan has left to do.  zkctl.bin is external   *)
(* here: one call of it is one step.                                       *)
(***************************************************************************)
EXTENDS Integers, FiniteSets

CONSTANTS
  Partitions,     \* index partitions
  Nodes,          \* slave nodes
  MaxInstances,   \* bound: instances ever created of one partition
  Placed          \* the running instances to begin with, id |-> node

\* Instance k of partition p is bs_<p>-<k>, k from ZooKeeper's counter, which
\* never gives a number twice.  No partition's name is part of another's, so
\* that `grep <partition>-` finds the instances of that partition only.
Ids == Partitions \X (1..MaxInstances)
PartOf(id) == id[1]

ASSUME StoreAssumption ==
  /\ IsFiniteSet(Partitions) /\ Nodes # {}
  /\ MaxInstances \in Nat \ {0}
  /\ DOMAIN Placed \subseteq Ids /\ \A id \in DOMAIN Placed : Placed[id] \in Nodes

\* The instances placed to begin with: their number, which is their numbers',
\* and at most one of a partition on a node.
PlacedOf(p) == Cardinality({id \in DOMAIN Placed : PartOf(id) = p})

ASSUME PlacedAssumption ==
  /\ \A p \in Partitions : PlacedOf(p) \in 0..MaxInstances
  /\ \A id \in DOMAIN Placed : id[2] <= PlacedOf(PartOf(id))
  /\ \A a, b \in DOMAIN Placed : PartOf(a) = PartOf(b) /\ Placed[a] = Placed[b] => a = b

VARIABLES
  state,          \* id |-> meta attribute `state`, or "absent"
  node,           \* id |-> the slave node it was created on
  up,             \* the instances whose current state says up_down_state = up
  created,        \* partition |-> instances created so far
  plan_add,       \* ids that are attributes of job plan_add
  plan_del,       \* ids that are attributes of job plan_del ...
  deletable,      \* ... and those of them whose value is "del", not a partition
  plan_newlayer,  \* partitions that are attributes of job plan_newlayer
  connection      \* the instances the broker is told to query (bsinfo)

instanceVars == <<state, node, created>>
planVars == <<plan_add, plan_del, deletable>>
jobVars == <<planVars, plan_newlayer>>
storeVars == <<state, node, up, created, plan_add, plan_del, deletable,
               plan_newlayer, connection>>

States == {"absent", "NEW", "RUNNING", "TO_BE_DELETED"}

StoreTypeOK ==
  /\ state \in [Ids -> States]
  /\ node \in [Ids -> Nodes]
  /\ up \subseteq Ids
  /\ created \in [Partitions -> 0..MaxInstances]
  /\ plan_add \subseteq Ids /\ plan_del \subseteq Ids /\ deletable \subseteq plan_del
  /\ plan_newlayer \subseteq Partitions
  /\ connection \subseteq Ids

StoreInit ==
  /\ state = [id \in Ids |-> IF id \in DOMAIN Placed THEN "RUNNING" ELSE "absent"]
  /\ node = [id \in Ids |-> IF id \in DOMAIN Placed THEN Placed[id]
                            ELSE CHOOSE n \in Nodes : TRUE]
  /\ up = DOMAIN Placed
  /\ created = [p \in Partitions |-> PlacedOf(p)]
  /\ plan_add = {} /\ plan_del = {} /\ deletable = {} /\ plan_newlayer = {}
  /\ connection = DOMAIN Placed
-----------------------------------------------------------------------------
Exists(id) == state[id] # "absent"

\* slavenode list-service-instance | grep <partition>-
InstancesAt(p, n) == {id \in Ids : PartOf(id) = p /\ Exists(id) /\ node[id] = n}

\* What update_yiic puts in the connection: every instance that is not NEW.
Serving == {id \in Ids : state[id] \in {"RUNNING", "TO_BE_DELETED"}}

\* connection_check: the broker does not know the partition yet.
NewLayer(p) == \A id \in connection : PartOf(id) # p

SetState(id, s) == state' = [state EXCEPT ![id] = s]

\* service-instance add with "state": "NEW".
Create(p, n) ==
  /\ created[p] < MaxInstances
  /\ created' = [created EXCEPT ![p] = @ + 1]
  /\ state' = [state EXCEPT ![<<p, created[p] + 1>>] = "NEW"]
  /\ node' = [node EXCEPT ![<<p, created[p] + 1>>] = n]

\* job del-meta-attr; add-meta-attr fails, and changes nothing, if the key exists.
RemoveAdd(id) == plan_add' = plan_add \ {id}
RemoveDel(id) == plan_del' = plan_del \ {id} /\ deletable' = deletable \ {id}

\* The agent of the slave node has loaded the index and started the service,
\* or the service is down again.
InstanceComesUp(id) ==
  /\ Exists(id) /\ id \notin up
  /\ up' = up \cup {id}
  /\ UNCHANGED <<instanceVars, jobVars, connection>>

InstanceGoesDown(id) ==
  /\ id \in up
  /\ up' = up \ {id}
  /\ UNCHANGED <<instanceVars, jobVars, connection>>
=============================================================================
