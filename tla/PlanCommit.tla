----------------------------- MODULE PlanCommit -----------------------------
(***************************************************************************)
(* placement-plan_commit, run by crontab_autocommit: deletes the instances *)
(* that plan_del condemns once they are replaced, starts the instances of  *)
(* plan_add that are up, and then, if it printed a group, brings the       *)
(* connection of the group up to date.  All partitions here are of one     *)
(* group.                                                                  *)
(***************************************************************************)
EXTENDS PlanStore

VARIABLE
  sh  \* the script and crontab_autocommit, a record of
      \*   pc      where it is
      \*   list    what its for loop has left of (DEL_)SERVICE_INSTANCE_LIST
      \*   inst    INSTANCE
      \*   none    SERVICE_INSTANCE_LIST is empty in the first loop
      \*   PARTITION_ID   the script's global variable of that name
      \*   marks   what the loop of mark_deletable has left
      \*   marked  the instance that loop has just marked, if any
      \*   groups  it printed the group (TODO_GROUPS)
      \*   dump    the dump a connection is made of

NoInst == <<>>
Unset == "unset"

ASSUME CommitAssumption == {"del", Unset} \cap Partitions = {}

Scripted == {"reset", "list_del", "list_add", "del_loop", "del_get", "del_rm",
             "del_inst", "list_new", "start_loop", "start_get", "start_up",
             "start_set", "start_rm", "mark_list", "mark", "gate", "list_again",
             "layer_loop", "layer_get", "layer_set", "layer_rm"}

CommitTypeOK ==
  sh \in [pc : Scripted \cup {"idle", "dump", "connect"},
          list : SUBSET Ids, inst : Ids \cup {NoInst}, none : BOOLEAN,
          PARTITION_ID : Partitions \cup {"del", Unset},
          marks : SUBSET Ids, marked : Ids \cup {NoInst},
          groups : BOOLEAN, dump : SUBSET Ids]

Idle == [pc |-> "idle", list |-> {}, inst |-> NoInst, none |-> FALSE,
         PARTITION_ID |-> Unset, marks |-> {}, marked |-> NoInst,
         groups |-> FALSE, dump |-> {}]

CommitInit == sh = Idle

CommitRunning == sh.pc \in Scripted

At(label) == sh.pc = label
To(label) == [sh EXCEPT !.pc = label]

\* The script exits: crontab_autocommit goes on with the groups it printed.
Stopped == IF sh.groups THEN To("dump") ELSE Idle
-----------------------------------------------------------------------------
StartCommit == At("idle") /\ sh' = To("reset") /\ UNCHANGED storeVars

reset_new_layer ==
  /\ At("reset") /\ sh' = To("list_del")
  /\ plan_newlayer' = {}
  /\ UNCHANGED <<instanceVars, up, planVars, connection>>

\* job get-meta-keys, for the loop that follows.
list_plan ==
  /\ \/ At("list_del")   /\ sh' = [To("list_add") EXCEPT !.list = plan_del]
     \/ At("list_new")   /\ sh' = [To("start_loop") EXCEPT !.list = plan_add]
     \/ At("list_again") /\ sh' = [To("layer_loop") EXCEPT !.list = plan_add]
  /\ UNCHANGED storeVars

look_at_plan_add ==
  /\ At("list_add") /\ sh' = [To("del_loop") EXCEPT !.none = (plan_add = {})]
  /\ UNCHANGED storeVars

Loops == {"del_loop", "start_loop", "layer_loop"}
Body == [del_loop |-> "del_get", start_loop |-> "start_get", layer_loop |-> "layer_get"]

loop_ends ==
  /\ sh.pc \in Loops /\ sh.list = {}
  /\ sh' = CASE At("del_loop") -> To("list_new")
             [] At("start_loop") -> To("gate")
             [] At("layer_loop") -> Stopped
  /\ UNCHANGED storeVars

\* The head of each loop and check_service_instance_is_valid: an instance that
\* is gone is dropped from both jobs.  (The calls that do so are one step with
\* the check: nobody creates that id again.)
next_instance ==
  /\ sh.pc \in Loops
  /\ \E id \in sh.list :
       IF Exists(id)
       THEN /\ sh' = [sh EXCEPT !.list = @ \ {id}, !.inst = id, !.pc = Body[@]]
            /\ UNCHANGED planVars
       ELSE /\ sh' = [sh EXCEPT !.list = @ \ {id}]
            /\ RemoveAdd(id) /\ RemoveDel(id)
  /\ UNCHANGED <<instanceVars, up, plan_newlayer, connection>>
-----------------------------------------------------------------------------
\* The value of a key of plan_del: the partition, or "del".
Value(id) == IF id \in deletable THEN "del" ELSE PartOf(id)

\* Mutant: what is listed goes, marked or not.
del_get_at_once ==
  /\ At("del_get")
  /\ sh' = IF sh.inst \in plan_del
           THEN [To("del_rm") EXCEPT !.PARTITION_ID = Value(sh.inst)]
           ELSE Stopped
  /\ UNCHANGED storeVars

\* An instance of plan_del goes when it is marked, or nothing is being added.
del_get ==
  /\ At("del_get")
  /\ sh' = IF sh.inst \in plan_del
           THEN [To(IF Value(sh.inst) = "del" \/ sh.none THEN "del_rm" ELSE "del_loop")
                   EXCEPT !.PARTITION_ID = Value(sh.inst)]
           ELSE Stopped
  /\ UNCHANGED storeVars

\* Mutant: it does not print the group.
rm_job_list_del_silent ==
  /\ At("del_rm") /\ sh' = To("del_inst")
  /\ RemoveDel(sh.inst)
  /\ UNCHANGED <<instanceVars, up, plan_add, plan_newlayer, connection>>

rm_job_list_del ==
  /\ At("del_rm")
  /\ IF sh.inst \in plan_del
     THEN RemoveDel(sh.inst) /\ sh' = [To("del_inst") EXCEPT !.groups = TRUE]
     ELSE sh' = Stopped /\ UNCHANGED <<plan_del, deletable>>
  /\ UNCHANGED <<instanceVars, up, plan_add, plan_newlayer, connection>>

\* service-instance del; a failure is only logged.
delete_service_instance ==
  /\ At("del_inst") /\ sh' = To("del_loop")
  /\ SetState(sh.inst, "absent") /\ up' = up \ {sh.inst}
  /\ UNCHANGED <<node, created, planVars, plan_newlayer, connection>>
-----------------------------------------------------------------------------
\* PARTITION=$(job get-meta-attr): apply lists an id under its own partition.
\* A key that has gone ends the script (in the last loop it is connection_check,
\* called without arguments, that does).
get_partition ==
  /\ \/ /\ At("start_get")
        /\ sh' = IF sh.inst \in plan_add THEN To("start_up") ELSE Stopped
     \/ /\ At("layer_get")
        /\ sh' = IF sh.inst \notin plan_add THEN Stopped
                 ELSE IF NewLayer(PartOf(sh.inst)) THEN To("layer_set")
                 ELSE To("layer_loop")
  /\ UNCHANGED storeVars

\* Mutant: mark_if_new_layer is forgotten.
check_up_unmarked ==
  /\ At("start_up")
  /\ sh' = IF sh.inst \in up /\ ~NewLayer(PartOf(sh.inst)) THEN To("start_set")
                                                          ELSE To("start_loop")
  /\ UNCHANGED storeVars

\* up_down_state, is_new_layer, mark_if_new_layer: an instance that is up and
\* of a partition the broker knows is started now; one of a new layer waits,
\* and keeps every new layer waiting if it is not up.
CheckUp(isUp, isNew) ==
  /\ At("start_up")
  /\ sh' = To(IF isUp /\ ~isNew THEN "start_set" ELSE "start_loop")
  /\ plan_newlayer' = IF ~isUp /\ isNew THEN plan_newlayer \cup {PartOf(sh.inst)}
                                        ELSE plan_newlayer
  /\ UNCHANGED <<instanceVars, up, planVars, connection>>

\* Mutant: an instance that is not up ends the script.
check_up_stops ==
  IF sh.inst \in up THEN CheckUp(TRUE, NewLayer(PartOf(sh.inst)))
  ELSE At("start_up") /\ sh' = Stopped /\ UNCHANGED storeVars

check_up == CheckUp(sh.inst \in up, NewLayer(PartOf(sh.inst)))

start_service_instance ==
  /\ sh.pc \in {"start_set", "layer_set"}
  /\ IF Exists(sh.inst)
     THEN /\ SetState(sh.inst, "RUNNING")
          /\ sh' = To(IF At("start_set") THEN "start_rm" ELSE "layer_rm")
     ELSE sh' = Stopped /\ UNCHANGED state
  /\ UNCHANGED <<node, up, created, planVars, plan_newlayer, connection>>

\* Mutant: a started instance stays in plan_add.
rm_job_list_add_kept ==
  /\ sh.pc \in {"start_rm", "layer_rm"}
  /\ sh' = [To(IF At("start_rm") THEN "mark_list" ELSE "layer_loop") EXCEPT !.groups = TRUE]
  /\ UNCHANGED storeVars

rm_job_list_add ==
  /\ sh.pc \in {"start_rm", "layer_rm"}
  /\ IF sh.inst \in plan_add
     THEN /\ RemoveAdd(sh.inst)
          /\ sh' = [To(IF At("start_rm") THEN "mark_list" ELSE "layer_loop")
                      EXCEPT !.groups = TRUE]
     ELSE sh' = Stopped /\ UNCHANGED plan_add
  /\ UNCHANGED <<instanceVars, up, plan_del, deletable, plan_newlayer, connection>>
-----------------------------------------------------------------------------
list_marks ==
  /\ At("mark_list") /\ sh' = [To("mark") EXCEPT !.marks = plan_del]
  /\ UNCHANGED storeVars

\* Mutant: set-meta-attr would create a key that has gone.
mark_one_creates ==
  /\ At("mark")
  /\ \E id \in sh.marks :
       /\ sh' = [sh EXCEPT !.marks = @ \ {id}]
       /\ deletable' = IF sh.PARTITION_ID = PartOf(sh.inst) THEN deletable \cup {id}
                                                           ELSE deletable
  /\ UNCHANGED <<instanceVars, up, plan_add, plan_del, plan_newlayer, connection>>

\* mark_deletable, one turn of its loop: it reads the partition of the entry
\* into PARTITION_id, and compares PARTITION_ID, which still has what the first
\* loop of the script left there.
mark_one ==
  /\ At("mark")
  /\ \E id \in sh.marks :
       LET marks == id \in plan_del /\ sh.PARTITION_ID = PartOf(sh.inst) IN
       /\ sh' = IF id \in plan_del
                THEN [sh EXCEPT !.marks = @ \ {id}, !.marked = IF marks THEN id ELSE NoInst]
                ELSE Stopped
       /\ deletable' = IF marks THEN deletable \cup {id} ELSE deletable
  /\ UNCHANGED <<instanceVars, up, plan_add, plan_del, plan_newlayer, connection>>

marks_end ==
  /\ At("mark") /\ sh.marks = {}
  /\ sh' = [To("start_loop") EXCEPT !.marked = NoInst]
  /\ UNCHANGED storeVars

is_all_new_layer_ok ==
  /\ At("gate") /\ sh' = IF plan_newlayer = {} THEN To("list_again") ELSE Stopped
  /\ UNCHANGED storeVars
-----------------------------------------------------------------------------
\* crontab_autocommit: placement-plan dump, then connection generate and commit.
dump ==
  /\ At("dump") /\ sh' = [To("connect") EXCEPT !.dump = Serving]
  /\ UNCHANGED storeVars

connection_commit ==
  /\ At("connect") /\ sh' = Idle
  /\ connection' = sh.dump
  /\ UNCHANGED <<instanceVars, up, planVars, plan_newlayer>>

CommitStep ==
  \/ reset_new_layer \/ list_plan \/ look_at_plan_add \/ loop_ends \/ next_instance
  \/ del_get \/ rm_job_list_del \/ delete_service_instance
  \/ get_partition \/ check_up \/ start_service_instance \/ rm_job_list_add
  \/ list_marks \/ mark_one \/ marks_end \/ is_all_new_layer_ok
  \/ dump \/ connection_commit

-----------------------------------------------------------------------------
\* Calls of zkctl.bin, or of the broker's arbitrator, that fail and change
\* nothing.  Most of those that the script does not look at leave it with an
\* empty answer, and it goes on.
reset_fails == At("reset") /\ sh' = To("list_del") /\ UNCHANGED storeVars

list_fails ==
  /\ \/ At("list_del")   /\ sh' = [To("list_add") EXCEPT !.list = {}]
     \/ At("list_add")   /\ sh' = [To("del_loop") EXCEPT !.none = TRUE]
     \/ At("list_new")   /\ sh' = [To("start_loop") EXCEPT !.list = {}]
     \/ At("list_again") /\ sh' = [To("layer_loop") EXCEPT !.list = {}]
     \/ At("mark_list")  /\ sh' = [To("mark") EXCEPT !.marks = {}]
  /\ UNCHANGED storeVars

\* isvalid prints "invalid" for any error, and succeeds.
isvalid_fails ==
  /\ sh.pc \in Loops
  /\ \E id \in sh.list :
       sh' = [sh EXCEPT !.list = @ \ {id}] /\ RemoveAdd(id) /\ RemoveDel(id)
  /\ UNCHANGED <<instanceVars, up, plan_newlayer, connection>>

\* What cannot be read is not up; connection_check prints "new" if the
\* arbitrator prints nothing, "old" if it prints no data.
check_up_fails ==
  \E isUp, isNew \in BOOLEAN : (isUp => sh.inst \in up) /\ CheckUp(isUp, isNew)

check_layer_fails ==
  /\ At("layer_get") /\ sh.inst \in plan_add
  /\ sh' \in {To("layer_set"), To("layer_loop")}
  /\ UNCHANGED storeVars

delete_fails == At("del_inst") /\ sh' = To("del_loop") /\ UNCHANGED storeVars

is_all_new_layer_ok_fails == At("gate") /\ sh' = To("list_again") /\ UNCHANGED storeVars

\* The calls it does look at end it.
Checked == {"del_get", "del_rm", "start_get", "start_up", "start_set", "start_rm",
            "mark", "layer_get", "layer_set", "layer_rm"}

checked_call_fails == sh.pc \in Checked /\ sh' = Stopped /\ UNCHANGED storeVars

\* ... and the look-up of the group is one of them: the entry is gone already.
group_fails ==
  /\ sh' = Stopped
  /\ \/ At("del_rm") /\ RemoveDel(sh.inst) /\ UNCHANGED plan_add
     \/ sh.pc \in {"start_rm", "layer_rm"} /\ RemoveAdd(sh.inst)
        /\ UNCHANGED <<plan_del, deletable>>
  /\ UNCHANGED <<instanceVars, up, plan_newlayer, connection>>

\* crontab_autocommit goes on to the next group.
connection_fails == sh.pc \in {"dump", "connect"} /\ sh' = Idle /\ UNCHANGED storeVars

CommitFails ==
  \/ reset_fails \/ list_fails \/ isvalid_fails \/ check_up_fails \/ check_layer_fails
  \/ delete_fails \/ is_all_new_layer_ok_fails \/ checked_call_fails \/ group_fails
  \/ connection_fails

\* The script is killed, and crontab_autocommit goes on with what it printed;
\* or both are.
KillCommit ==
  /\ ~At("idle")
  /\ sh' = Idle \/ (CommitRunning /\ sh' = Stopped)
  /\ UNCHANGED storeVars
=============================================================================
