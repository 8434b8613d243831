----------------------------- MODULE PlanApply -----------------------------
(***************************************************************************)
(* placement-plan_apply: reads the lines of a placement plan and carries   *)
(* each out by a sequence of zkctl.bin calls.  The instance it creates is  *)
(* NEW and listed in plan_add, the one it gives up is TO_BE_DELETED and    *)
(* listed in plan_del; placement-plan_commit does the rest.                *)
(***************************************************************************)
EXTENDS PlanStore, Sequences

VARIABLES
  lines,   \* what is left of the plan
  calls,   \* the calls left to make for the current line, its `line` first
  line,    \* the current line
  src,     \* SERVICE_INSTANCE_ID: the instance the line gives up
  dst      \* NEW_SERVICE_INSTANCE_ID: the instance it creates

applyVars == <<lines, calls, line, src, dst>>

\* A line of a plan: op, partition, and the nodes it takes from and adds to.
Line(op, p, from, to) == [op |-> op, part |-> p, from |-> from, to |-> to]

NoLine == [op |-> "none"]
NoId == <<>>

ApplyInit ==
  lines = <<>> /\ calls = <<>> /\ line = NoLine /\ src = NoId /\ dst = NoId

ApplyIdle == lines = <<>> /\ calls = <<>>

\* Mutants: the id stays in plan_add; it is listed before it is taken off.
PutDel_keeps_add == <<"rm_src_del", "put_src_del">>
PutDel_swapped == <<"put_src_del", "rm_src_add", "rm_src_del">>

\* rm_from_job_list, then add-meta-attr.
PutAdd == <<"rm_dst_add", "rm_dst_del", "put_dst_add">>
PutDel == <<"rm_src_add", "rm_src_del", "put_src_del">>

\* delete_index_from_slavenode and add_index_to_slavenode.
DeleteIndex == <<"find_src", "set_to_be_deleted">> \o PutDel
AddIndex == <<"create">> \o PutAdd

\* move_index_between_slavenode runs both in a subshell, "sub" and on: what
\* exits there only makes the move return.  Then it lists both ids once more.
CallsOf(op) ==
  CASE op = "ADD"  -> <<"exit_if_exist">> \o AddIndex
    [] op = "DEL"  -> <<"exit_if_not_exist">> \o DeleteIndex
    [] op = "MOVE" -> <<"exit_if_not_exist", "exit_if_exist", "find_src">>
                      \o <<"sub", "exit_if_not_exist">> \o DeleteIndex
                      \o <<"exit_if_exist">> \o AddIndex
                      \o PutDel \o PutAdd

StartApply(plan) == ApplyIdle /\ lines' = plan /\ UNCHANGED <<calls, line, src, dst, storeVars>>

\* `while read ONE_LINE`
read_line ==
  /\ calls = <<>> /\ lines # <<>>
  /\ line' = Head(lines) /\ lines' = Tail(lines)
  /\ calls' = CallsOf(Head(lines).op)
  /\ src' = NoId /\ dst' = NoId
  /\ UNCHANGED storeVars

Call(name) == calls # <<>> /\ Head(calls) = name

Continue == calls' = Tail(calls) /\ UNCHANGED <<lines, line>>

\* `return 1`: the line is given up, what it has done stays done.
Return == calls' = <<>> /\ UNCHANGED <<lines, line>>

\* `exit 1`: of the subshell inside a move, else of the loop over the lines.
InSubshell == line.op = "MOVE" /\ ~\E i \in 1..Len(calls) : calls[i] = "sub"
Exit == /\ calls' = <<>>
        /\ lines' = IF InSubshell THEN lines ELSE <<>>
        /\ UNCHANGED line

exit_if_not_exist ==
  /\ Call("exit_if_not_exist")
  /\ IF InstancesAt(line.part, line.from) = {} THEN Exit ELSE Continue
  /\ UNCHANGED <<src, dst, storeVars>>

\* Mutant: the line is carried out all the same.
exit_if_exist_ignored ==
  /\ Call("exit_if_exist") /\ Continue /\ UNCHANGED <<src, dst, storeVars>>

exit_if_exist ==
  /\ Call("exit_if_exist")
  /\ IF InstancesAt(line.part, line.to) # {} THEN Exit ELSE Continue
  /\ UNCHANGED <<src, dst, storeVars>>

subshell == Call("sub") /\ Continue /\ UNCHANGED <<src, dst, storeVars>>

\* SERVICE_INSTANCE_ID=$(... list-service-instance ... | grep ...)
find_src ==
  /\ Call("find_src")
  /\ \/ \E id \in InstancesAt(line.part, line.from) : src' = id /\ Continue
     \/ InstancesAt(line.part, line.from) = {} /\ Return /\ UNCHANGED src
  /\ UNCHANGED <<dst, storeVars>>

\* Mutant: the instance is listed in plan_del as it is.
set_to_be_deleted_skipped ==
  Call("set_to_be_deleted") /\ Continue /\ UNCHANGED <<src, dst, storeVars>>

\* set-meta-attr --key=state --value=TO_BE_DELETED
set_to_be_deleted ==
  /\ Call("set_to_be_deleted")
  /\ IF Exists(src) THEN SetState(src, "TO_BE_DELETED") /\ Continue
                    ELSE Return /\ UNCHANGED state
  /\ UNCHANGED <<src, dst, node, up, created, jobVars, connection>>

\* service-instance add, set-planned-state-all
create ==
  /\ Call("create")
  /\ Create(line.part, line.to)
  /\ dst' = <<line.part, created[line.part] + 1>>
  /\ Continue
  /\ UNCHANGED <<src, up, jobVars, connection>>

rm_from_job_list ==
  /\ \/ Call("rm_dst_add") /\ RemoveAdd(dst) /\ UNCHANGED <<plan_del, deletable>>
     \/ Call("rm_src_add") /\ RemoveAdd(src) /\ UNCHANGED <<plan_del, deletable>>
     \/ Call("rm_dst_del") /\ RemoveDel(dst) /\ UNCHANGED plan_add
     \/ Call("rm_src_del") /\ RemoveDel(src) /\ UNCHANGED plan_add
  /\ Continue
  /\ UNCHANGED <<src, dst, instanceVars, up, plan_newlayer, connection>>

put_to_job_list_add ==
  /\ Call("put_dst_add")
  /\ plan_add' = plan_add \cup {dst}
  /\ Continue
  /\ UNCHANGED <<src, dst, instanceVars, up, plan_del, deletable, plan_newlayer, connection>>

put_to_job_list_del ==
  /\ Call("put_src_del")
  /\ plan_del' = plan_del \cup {src}
  /\ Continue
  /\ UNCHANGED <<src, dst, instanceVars, up, plan_add, deletable, plan_newlayer, connection>>

ApplyStep ==
  \/ read_line \/ exit_if_not_exist \/ exit_if_exist \/ subshell \/ find_src
  \/ set_to_be_deleted \/ create \/ rm_from_job_list
  \/ put_to_job_list_add \/ put_to_job_list_del

\* What it did stays done, the rest of the plan is lost.
KillApply ==
  /\ ~ApplyIdle
  /\ lines' = <<>> /\ calls' = <<>> /\ line' = NoLine /\ src' = NoId /\ dst' = NoId
  /\ UNCHANGED storeVars

ApplyTypeOK ==
  /\ line = NoLine \/ line.op \in {"ADD", "DEL", "MOVE"}
  /\ src \in Ids \cup {NoId} /\ dst \in Ids \cup {NoId}
=============================================================================
