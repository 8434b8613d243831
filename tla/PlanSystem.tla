----------------------------- MODULE PlanSystem -----------------------------
(***************************************************************************)
(* A placement plan from its application to the broker's connection: the   *)
(* operator's placement-plan_apply, the cron job's placement-plan_commit   *)
(* and the agents of the slave nodes, on the same ZooKeeper state.         *)
(***************************************************************************)
EXTENDS PlanApply, PlanCommit

CONSTANTS
  Plans,     \* the plans that may be applied, sequences of lines
  Regimes    \* how the scripts may be run, of which a behaviour keeps to one

\* locked: apply and commit run under zksh -w, else under -s: no lock.
\* mishaps: "kill", the scripts may be killed; "down", services may go down;
\* "fail", calls of the commit may fail; "late", the services of a new layer may
\* never come up.
\* plans: bound, the plans applied in a behaviour.
Regime(locked, mishaps, plans) == [locked |-> locked, mishaps |-> mishaps, plans |-> plans]

\* What read_line reads.
PlanLines == [op : {"ADD", "DEL", "MOVE"}, part : Partitions, from : Nodes, to : Nodes]

ASSUME PlansAssumption == \A plan \in Plans : plan \in Seq(PlanLines)

ASSUME SystemAssumption ==
  \A r \in Regimes :
    r.locked \in BOOLEAN /\ r.mishaps \subseteq {"kill", "down", "fail", "late"} /\ r.plans \in Nat

VARIABLES
  regime,  \* the regime of this behaviour
  left     \* plans that may still be applied

vars == <<storeVars, applyVars, sh, regime, left>>

TypeOK ==
  /\ StoreTypeOK /\ ApplyTypeOK /\ CommitTypeOK
  /\ regime \in Regimes /\ left \in 0..regime.plans

Init == StoreInit /\ ApplyInit /\ CommitInit /\ regime \in Regimes /\ left = regime.plans

\* zksh: under the write lock the two scripts exclude each other.
BeginApply ==
  /\ left > 0 /\ left' = left - 1
  /\ regime.locked => ~CommitRunning
  /\ \E plan \in Plans : StartApply(plan)
  /\ UNCHANGED <<sh, regime>>

Apply == ApplyStep /\ UNCHANGED <<sh, regime, left>>

BeginCommit ==
  /\ regime.locked => ApplyIdle
  /\ StartCommit
  /\ UNCHANGED <<applyVars, regime, left>>

Commit == CommitStep /\ UNCHANGED <<applyVars, regime, left>>

Agent(id) == InstanceComesUp(id) /\ UNCHANGED <<applyVars, sh, regime, left>>

MayBeKilled == "kill" \in regime.mishaps
MayFail == "fail" \in regime.mishaps

Mishap ==
  /\ \/ MayBeKilled /\ KillApply /\ UNCHANGED sh
     \/ MayBeKilled /\ KillCommit /\ UNCHANGED applyVars
     \/ MayFail /\ CommitFails /\ UNCHANGED applyVars
     \/ "down" \in regime.mishaps /\ (\E id \in Ids : InstanceGoesDown(id))
        /\ UNCHANGED <<applyVars, sh>>
  /\ UNCHANGED <<regime, left>>

Next ==
  \/ BeginApply \/ Apply \/ BeginCommit \/ Commit
  \/ \E id \in Ids : Agent(id)
  \/ Mishap

Spec == Init /\ [][Next]_vars

\* The scripts run on, cron runs the commit again and again, and every service
\* that is installed comes up in the end, of a new layer too unless it is late.
\* Nobody has to apply a plan.
ServedBefore(p) == PlacedOf(p) > 0
InTime(id) == Agent(id) /\ ("late" \in regime.mishaps => ServedBefore(PartOf(id)))

Fairness ==
  /\ WF_vars(Apply) /\ WF_vars(Commit) /\ WF_vars(BeginCommit)
  /\ \A id \in Ids : WF_vars(InTime(id))

FairSpec == Spec /\ Fairness
-----------------------------------------------------------------------------
\* No instance is being added and removed at once: rm_from_job_list takes an id
\* off both jobs before it is put on either.
ListsDisjoint == plan_add \cap plan_del = {}

\* A slave node has at most one instance of a partition; apply relies on it
\* (placement-plan_apply:162) and its checks must keep it so.
PlacedOnce == \A p \in Partitions, n \in Nodes : Cardinality(InstancesAt(p, n)) <= 1

\* The commit deletes an instance only after a plan has condemned it, under the
\* write lock and whatever is killed.
OnlyCondemnedDeleted ==
  [][\A id \in Ids :
       regime.locked /\ Exists(id) /\ state'[id] = "absent" => state[id] = "TO_BE_DELETED"]_vars

\* The commit lets an instance serve queries only if it has come up, whether
\* it is started on its own or with the other new layers.
StartedWasUp ==
  \A id \in Ids : state[id] = "RUNNING" => id \in up

\* ... which holds under the write lock, if no service goes down again between
\* the commit's check and its start and no call fails, whatever is killed.
StartedUnderLock ==
  regime.locked /\ "down" \notin regime.mishaps /\ ~MayFail => StartedWasUp

\* The condemned instances that no commit will delete: not listed in plan_del, nor
\* about to be listed by apply or deleted by the commit.
Listing == calls # <<>> /\ Head(calls) \in {"rm_src_add", "rm_src_del", "put_src_del"}
Forgotten ==
  {id \in Ids :
     /\ state[id] = "TO_BE_DELETED" /\ id \notin plan_del
     /\ ~(Listing /\ id = src) /\ ~(At("del_inst") /\ id = sh.inst)}

\* Under the write lock a condemned instance is forgotten only by a kill between
\* two calls or by a call that fails, and each of them forgets one at most.
ForgotByMishap ==
  [][regime.locked =>
       \/ Forgotten' \subseteq Forgotten
       \/ Mishap /\ \E id \in Ids : Forgotten' \subseteq Forgotten \cup {id}]_vars

\* Under the write lock an instance that a plan has condemned serves again only if
\* a kill has made the scripts forget it.
NoResurrection ==
  [][\A id \in Ids :
       regime.locked /\ state[id] = "TO_BE_DELETED" /\ state'[id] = "RUNNING" =>
         MayBeKilled /\ id \in Forgotten]_vars

\* Under the write lock, moving the instances of a partition never leaves it without
\* one that serves.
KeepsServing ==
  regime.locked => \A p \in Partitions :
    (\E id \in DOMAIN Placed : PartOf(id) = p) => \E id \in Serving : PartOf(id) = p

\* The commit's check of the instances on the jobs takes off only those that are
\* gone (placement-plan_commit:168-181).
OnlyGoneForgotten ==
  [][\A id \in plan_add \cup plan_del :
       sh.pc \in Loops /\ sh'.pc = sh.pc /\ id \notin plan_add' \cup plan_del' => ~Exists(id)]_vars

\* What mark_deletable marks is of the partition of the instance just started.
MarksOwnPartition == sh.marked # NoInst => PartOf(sh.marked) = PartOf(sh.inst)

\* When no more plans come, every instance that was added gets started and
\* every one that was given up gets deleted, with or without the lock.
PlanCompletes == "late" \notin regime.mishaps => <>[](plan_add = {} /\ plan_del = {})

\* A layer that never comes up keeps only new layers from starting.
OthersStart == <>[](\A id \in plan_add : ~ServedBefore(PartOf(id)))

\* ... and the broker's connection becomes what the instances are.
ConnectionFollows == <>[](connection = Serving)
-----------------------------------------------------------------------------
\* Seen from outside: the instances, and what the regime promises of them.
Life == INSTANCE Instances WITH
          Last <- MaxInstances, locked <- regime.locked, killed <- MayBeKilled

\* Whatever the two scripts do to the instances, call by call and beside each
\* other, is a step of the life of one of them, in every regime.
ImplementsInstances == Life!Spec
=============================================================================
