----------------------------- MODULE Instances -----------------------------
(***************************************************************************)
(* What applying and committing placement plans does to the service        *)
(* instances, seen from outside: an instance is added where its partition  *)
(* has none, under a number never used before; it is started; it is        *)
(* condemned; it is deleted.  The module knows nothing of job lists, plan  *)
(* lines or calls; PlanSystem is shown to implement it.                    *)
(***************************************************************************)
EXTENDS Integers

CONSTANTS
  Partitions, Nodes,
  Last             \* the last number an instance of a partition can have

VARIABLES
  state,     \* <<partition, number>> |-> what has become of the instance
  node,      \* ... and the slave node it was added on
  created,   \* partition |-> the last number given out
  locked,    \* both scripts run under the write lock
  killed     \* a script may be killed

instanceVars == <<state, node, created, locked, killed>>

Ids == Partitions \X (1..Last)
There(id) == state[id] # "absent"

\* No two instances of a partition are on one slave node.
OneEach ==
  \A p \in Partitions, i, j \in 1..Last :
    There(<<p, i>>) /\ There(<<p, j>>) /\ node[<<p, i>>] = node[<<p, j>>] => i = j

Init ==
  /\ state \in [Ids -> {"absent", "RUNNING"}]
  /\ node \in [Ids -> Nodes]
  /\ created \in [Partitions -> 0..Last]
  /\ \A id \in Ids : There(id) => id[2] <= created[id[1]]
  /\ OneEach
  /\ locked \in BOOLEAN /\ killed \in BOOLEAN

Becomes(id, s) ==
  state' = [state EXCEPT ![id] = s] /\ UNCHANGED <<node, created, locked, killed>>

Add(p, n) ==
  /\ created[p] < Last
  /\ created' = [created EXCEPT ![p] = @ + 1]
  /\ \A i \in 1..Last : There(<<p, i>>) => node[<<p, i>>] # n
  /\ state' = [state EXCEPT ![<<p, created[p] + 1>>] = "NEW"]
  /\ node' = [node EXCEPT ![<<p, created[p] + 1>>] = n]
  /\ UNCHANGED <<locked, killed>>

\* An instance that is there is started, condemned or deleted.  What is
\* condemned stays so, under the lock, unless a script is killed
\* between condemning it and taking it off the list of what is to start.
Start(id) ==
  /\ locked /\ ~killed => state[id] # "TO_BE_DELETED"
  /\ Becomes(id, "RUNNING")

Condemn(id) == Becomes(id, "TO_BE_DELETED")

\* Under the lock only what is condemned is deleted.
Delete(id) ==
  /\ locked => state[id] = "TO_BE_DELETED"
  /\ Becomes(id, "absent")

Next ==
  \/ \E p \in Partitions, n \in Nodes : Add(p, n)
  \/ \E id \in Ids : There(id) /\ (Start(id) \/ Condemn(id) \/ Delete(id))

Spec == Init /\ [][Next]_instanceVars
=============================================================================
