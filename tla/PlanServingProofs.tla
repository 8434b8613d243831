------------------------- MODULE PlanServingProofs -------------------------
(***************************************************************************)
(* What holds of the instances that serve queries, for every cluster: that *)
(* none is started before it has come up, and that moving the instances of *)
(* a partition never leaves it without one.                                *)
(***************************************************************************)
EXTENDS PlanProofs

(***************************************************************************)
(* None is started before it has come up.                                  *)
(***************************************************************************)
\* The commit between its list of plan_add and the check of the new layers, and
\* after that check.
Checking == {"start_loop", "start_get", "start_up", "start_set", "start_rm", "mark_list", "mark"}
Starting == {"list_again", "layer_loop", "layer_get", "layer_set", "layer_rm"}

\* An instance of plan_add of a new layer is up, or it has been seen down, or the
\* loop has not come to it.
SeenDown(id) == PartOf(id) \in plan_newlayer
ToCome(id) == id \in sh.list \/ (id = sh.inst /\ sh.pc \in {"start_get", "start_up"})

Checks ==
  /\ sh.pc \in {"start_set", "layer_set"} => sh.inst \in up
  /\ \A id \in plan_add : NewLayer(PartOf(id)) /\ id \notin up =>
       /\ sh.pc \in Checking => SeenDown(id) \/ ToCome(id)
       /\ sh.pc = "gate" => SeenDown(id)
       /\ sh.pc \notin Starting

\* Under the lock, if no service goes down and no call fails.
UpInv ==
  regime.locked /\ "down" \notin regime.mishaps /\ ~MayFail => StartedWasUp /\ Checks

\* A step of the commit starts what is up, and keeps what it has checked.
LEMMA CommitChecks ==
  ASSUME StoreTypeOK, CommitTypeOK, InstInv, StartedWasUp, Checks,
         CommitStep \/ StartCommit \/ KillCommit
  PROVE  StartedWasUp' /\ Checks'
<1> USE DEF Checking, Starting, SeenDown, ToCome, At
<1>1. /\ DOMAIN sh = {"pc", "list", "inst", "none", "PARTITION_ID", "marks", "marked",
                      "groups", "dump"}
      /\ Stopped.pc \in {"idle", "dump"} /\ Idle.pc = "idle"
      /\ \A label : To(label).pc = label /\ To(label).inst = sh.inst /\ To(label).list = sh.list
  BY DEF CommitTypeOK, Stopped, Idle, To
<1>2. CASE reset_new_layer
  BY <1>1, <1>2 DEF reset_new_layer, StartedWasUp, Checks, instanceVars, planVars, NewLayer
<1>3. CASE list_plan
  BY <1>1, <1>3, ZenonT(60) DEF list_plan, StartedWasUp, Checks, storeVars, NewLayer, To
<1>4. CASE look_at_plan_add
  BY <1>1, <1>4 DEF look_at_plan_add, StartedWasUp, Checks, storeVars, NewLayer, To
<1>5. CASE loop_ends
  BY <1>1, <1>5 DEF loop_ends, Loops, StartedWasUp, Checks, storeVars, NewLayer
<1>6. CASE next_instance
  <2>1. PICK id \in sh.list :
          \/ /\ sh' = [sh EXCEPT !.list = @ \ {id}, !.inst = id, !.pc = Body[@]]
             /\ UNCHANGED planVars
          \/ /\ sh' = [sh EXCEPT !.list = @ \ {id}] /\ RemoveAdd(id) /\ RemoveDel(id)
    BY <1>6 DEF next_instance
  <2>2. /\ sh.pc \in Loops /\ UNCHANGED <<instanceVars, up, plan_newlayer, connection>>
        /\ sh'.list = sh.list \ {id} /\ plan_add' \subseteq plan_add
    BY <1>1, <1>6, <2>1 DEF next_instance, planVars, RemoveAdd
  <2>3. \/ /\ sh'.pc = Body[sh.pc] /\ sh'.inst = id /\ plan_add' = plan_add
        \/ sh'.pc = sh.pc /\ sh'.inst = sh.inst /\ plan_add' = plan_add \ {id}
    BY <1>1, <2>1 DEF planVars, RemoveAdd
  <2>4. CASE sh'.pc = Body[sh.pc] /\ sh'.inst = id /\ plan_add' = plan_add
    <3>1. \/ sh.pc = "del_loop" /\ sh'.pc = "del_get"
          \/ sh.pc = "start_loop" /\ sh'.pc = "start_get"
          \/ sh.pc = "layer_loop" /\ sh'.pc = "layer_get"
      BY <2>2, <2>4 DEF Loops, Body
    <3> QED BY <2>2, <2>4, <3>1 DEF StartedWasUp, Checks, instanceVars, NewLayer
  <2>5. CASE sh'.pc = sh.pc /\ sh'.inst = sh.inst /\ plan_add' = plan_add \ {id}
    <3>1. sh.pc \in {"del_loop", "start_loop", "layer_loop"}
      BY <2>2 DEF Loops
    <3> QED BY <2>2, <2>5, <3>1 DEF StartedWasUp, Checks, instanceVars, NewLayer
  <2> QED BY <2>3, <2>4, <2>5
<1>7. CASE del_get \/ rm_job_list_del
  <2>1. /\ sh'.pc \in {"del_rm", "del_loop", "del_inst", Stopped.pc}
        /\ UNCHANGED <<state, up, plan_add, connection>>
    BY <1>1, <1>7, ZenonT(40)
       DEF del_get, rm_job_list_del, storeVars, instanceVars, CommitTypeOK, To
  <2> QED BY <1>1, <2>1 DEF StartedWasUp, Checks
<1>8. CASE delete_service_instance
  BY <1>1, <1>8 DEF delete_service_instance, SetState, StoreTypeOK, StartedWasUp, Checks
<1>9. CASE get_partition
  BY <1>1, <1>9 DEF get_partition, StartedWasUp, Checks, storeVars, NewLayer
<1>10. CASE check_up
  BY <1>1, <1>10 DEF check_up, CheckUp, StartedWasUp, Checks, NewLayer, instanceVars, planVars
<1>11. CASE start_service_instance
  <2>1. StartedWasUp'
    BY <1>11 DEF start_service_instance, SetState, StoreTypeOK, StartedWasUp, Checks
  <2>2. Checks'
    BY <1>1, <1>11 DEF start_service_instance, Checks, planVars, NewLayer
  <2> QED BY <2>1, <2>2
<1>12. CASE rm_job_list_add
  <2>1. /\ UNCHANGED <<instanceVars, up, plan_newlayer, connection>>
        /\ \/ sh.pc = "start_rm" /\ sh'.pc = "mark_list" /\ plan_add' = plan_add \ {sh.inst}
           \/ sh.pc = "layer_rm" /\ sh'.pc = "layer_loop" /\ plan_add' = plan_add \ {sh.inst}
           \/ sh'.pc = Stopped.pc /\ plan_add' = plan_add
        /\ sh'.pc \in {"mark_list", "layer_loop"} => sh'.inst = sh.inst /\ sh'.list = sh.list
    BY <1>1, <1>12 DEF rm_job_list_add, RemoveAdd, To
  <2> QED BY <1>1, <2>1 DEF StartedWasUp, Checks, instanceVars, NewLayer
<1>13. CASE list_marks
  BY <1>1, <1>13 DEF list_marks, StartedWasUp, Checks, storeVars, NewLayer, To
<1>14. CASE mark_one
  <2>1. sh'.pc = Stopped.pc \/ (sh'.pc = sh.pc /\ sh'.inst = sh.inst /\ sh'.list = sh.list)
    BY <1>1, <1>14 DEF mark_one
  <2> QED BY <1>1, <1>14, <2>1 DEF mark_one, StartedWasUp, Checks, instanceVars, NewLayer
<1>15. CASE marks_end
  BY <1>1, <1>15 DEF marks_end, StartedWasUp, Checks, storeVars, NewLayer, To
<1>16. CASE is_all_new_layer_ok
  BY <1>1, <1>16 DEF is_all_new_layer_ok, StartedWasUp, Checks, storeVars, NewLayer
<1>17. CASE dump
  BY <1>1, <1>17 DEF dump, StartedWasUp, Checks, storeVars, NewLayer
<1>18. CASE connection_commit
  BY <1>1, <1>18 DEF connection_commit, StartedWasUp, Checks, instanceVars, planVars
<1>19. CASE StartCommit
  BY <1>1, <1>19 DEF StartCommit, StartedWasUp, Checks, storeVars
<1>20. CASE KillCommit
  BY <1>1, <1>20 DEF KillCommit, StartedWasUp, Checks, storeVars
<1> QED
  BY <1>2, <1>3, <1>4, <1>5, <1>6, <1>7, <1>8, <1>9, <1>10, <1>11, <1>12, <1>13, <1>14, <1>15,
       <1>16, <1>17, <1>18, <1>19, <1>20 DEF CommitStep

\* Each step keeps it.
LEMMA UpKept == IInv /\ UpInv /\ [Next]_vars => UpInv'
<1> SUFFICES ASSUME IInv, UpInv, [Next]_vars,
                    regime'.locked, "down" \notin regime'.mishaps, ~MayFail'
             PROVE  StartedWasUp' /\ Checks'
  BY DEF UpInv
<1>1. regime' = regime
  <2>1. Quiet \/ Reads \/ Calling \/ Ends \/ Begins \/ CommitMoves
    BY Kinds DEF IInv
  <2> QED BY <2>1 DEF Quiet, Reads, Calling, Ends, Begins, CommitMoves
<1>2. StartedWasUp /\ Checks /\ regime.locked /\ "down" \notin regime.mishaps /\ ~MayFail
  BY <1>1 DEF UpInv, MayFail
<1>3. CASE UNCHANGED <<state, up, plan_add, plan_newlayer, connection, sh>>
  BY <1>2, <1>3 DEF StartedWasUp, Checks, NewLayer, SeenDown, ToCome
<1>4. CASE CommitStep \/ StartCommit \/ KillCommit
  BY <1>2, <1>4, CommitChecks DEF IInv, TypeOK
<1>5. CASE \E id \in Ids : Agent(id)
  <2>1. up \subseteq up' /\ UNCHANGED <<state, plan_add, plan_newlayer, connection, sh>>
    BY <1>5 DEF Agent, InstanceComesUp, instanceVars, jobVars, planVars
  <2> QED BY <1>2, <2>1 DEF StartedWasUp, Checks, NewLayer, SeenDown, ToCome
<1>6. CASE Apply /\ calls # <<>> /\ Effect(Head(calls))
  <2>1. ~CommitRunning /\ UNCHANGED <<sh, up>>
    BY <1>2, <1>6 DEF IInv, LockInv, ApplyIdle, Apply, Effect
  <2>2. Checks'
    BY <2>1 DEF Checks, CommitRunning, Scripted, Checking, Starting
  <2>3. \A id \in Ids : state'[id] = "RUNNING" => state[id] = "RUNNING"
    <3>1. CASE Head(calls) = "create"
      BY <1>6, <3>1, CreateEffect DEF IInv, TypeOK, StoreTypeOK
    <3>2. CASE Head(calls) # "create"
      BY <1>6, <3>2 DEF Effect, IInv, TypeOK, StoreTypeOK
    <3> QED BY <3>1, <3>2
  <2> QED BY <1>2, <2>1, <2>2, <2>3 DEF StartedWasUp
<1>7. CASE Apply /\ ~(calls # <<>> /\ Effect(Head(calls)))
  <2>1. calls = <<>> => read_line
    BY <1>7 DEF Apply, ApplyStep, Call, exit_if_not_exist, exit_if_exist, subshell, find_src,
       set_to_be_deleted, create, rm_from_job_list, put_to_job_list_add, put_to_job_list_del
  <2>2. UNCHANGED <<storeVars, sh>>
    BY <1>7, <2>1, CallEffect DEF Apply, IInv, read_line, Stops
  <2> QED BY <1>3, <2>2 DEF storeVars
<1>8. CASE BeginApply \/ (Mishap /\ KillApply /\ UNCHANGED sh) \/ UNCHANGED vars
  BY <1>3, <1>8 DEF BeginApply, StartApply, KillApply, vars, storeVars
<1> QED
  BY <1>2, <1>4, <1>5, <1>6, <1>7, <1>8 DEF Next, BeginCommit, Commit, Mishap

\* The commit starts an instance only once it has come up, under the write lock,
\* whatever is killed, if no service goes down again and no call fails: of a new
\* layer too, for the whole layer has been seen up.
THEOREM StartedUnderLockHolds == Spec => []StartedUnderLock
<1>1. Init => UpInv
  BY DEF Init, StoreInit, CommitInit, Idle, UpInv, StartedWasUp, Checks, Checking, Starting
<1>2. UpInv => StartedUnderLock
  BY DEF UpInv, StartedUnderLock
<1> QED BY <1>1, <1>2, UpKept, Invariance, PTL DEF Spec
-----------------------------------------------------------------------------
(***************************************************************************)
(* Moving a partition keeps it served.                                     *)
(***************************************************************************)
\* The plans move one partition, or add to it; under the lock nothing is killed and
\* no call fails, but services may go down.
MovesOnly(q) ==
  /\ \A r \in Regimes : r.locked => r.mishaps \subseteq {"down", "late"}
  /\ \A plan \in Plans : \A i \in 1..Len(plan) : plan[i].op # "DEL" /\ plan[i].part = q

Of(q) == {id \in Ids : PartOf(id) = q}
PlacedAt(q) == \E id \in DOMAIN Placed : PartOf(id) = q

\* What is left of s.
IsRest(t, s) == Len(t) <= Len(s) /\ \A i \in 1..Len(t) : t[i] = s[Len(s) - Len(t) + i]

\* What apply is doing: its lines and its instances are of the partition.
RestInv(q) ==
  /\ \A i \in 1..Len(lines) : lines[i].op # "DEL" /\ lines[i].part = q
  /\ calls # <<>> => line.op \in {"ADD", "MOVE"} /\ line.part = q /\ IsRest(calls, CallsOf(line.op))
  /\ src \in Ids => PartOf(src) = q
  /\ dst \in Ids => PartOf(dst) = q
  /\ plan_add \subseteq Of(q)

\* A move that has found its new node free, and one between giving an instance up
\* and creating its successor.
Moving == calls # <<>> /\ line.op = "MOVE"
FreeInv == Moving /\ Len(calls) \in 11..19 => InstancesAt(line.part, line.to) = {}
Between == Moving /\ Len(calls) \in 10..14

\* Some instance is new or running, except between the two; the new ones are
\* listed, or about to be.
FirstInv(q) == Between \/ \E id \in Of(q) : state[id] \in {"NEW", "RUNNING"}
NewInv ==
  \A id \in Ids : state[id] = "NEW" =>
    \/ id \in plan_add
    \/ calls # <<>> /\ id = dst /\ Head(calls) \in {"rm_dst_add", "rm_dst_del", "put_dst_add"}

\* The commit: what it has just started runs, what it found about plan_add is
\* still so, and what is marked, or being deleted, is not all there is.
RunningInv(q) ==
  sh.pc \in {"start_rm", "layer_rm", "mark_list", "mark"} =>
    sh.inst \in Of(q) /\ state[sh.inst] = "RUNNING"
Deleting == {"del_loop", "del_get", "del_rm", "del_inst"}
NoneInv == sh.none /\ sh.pc \in Deleting => plan_add = {}
MarkInv(q) ==
  deletable # {} \/ sh.pc \in {"del_rm", "del_inst"} =>
    \E id \in Of(q) :
      id \in Serving /\ id \notin deletable /\ (sh.pc \in {"del_rm", "del_inst"} => id # sh.inst)

\* Nothing happens to the other partitions, and this one is served.
ServedInv(q) ==
  /\ \A id \in DOMAIN Placed : PartOf(id) # q => state[id] = "RUNNING"
  /\ PlacedAt(q) => /\ FirstInv(q) /\ MarkInv(q) /\ \E id \in Of(q) : id \in Serving

MoveInv(q) ==
  /\ regime.locked /\ regime.mishaps \subseteq {"down", "late"}
  /\ RestInv(q) /\ FreeInv /\ NewInv /\ RunningInv(q) /\ NoneInv /\ ServedInv(q)
-----------------------------------------------------------------------------
\* What is left after a call is what was left, but for that call.
LEMMA RestTail ==
  ASSUME NEW t \in Seq(Calls), NEW s \in Seq(Calls), t # <<>>, IsRest(t, s)
  PROVE  /\ IsRest(Tail(t), s) /\ Len(Tail(t)) = Len(t) - 1
         /\ Len(t) \in 1..Len(s) /\ Head(t) = s[Len(s) - Len(t) + 1]
<1>1. /\ Len(t) \in Nat \ {0} /\ Len(s) \in Nat /\ Len(Tail(t)) = Len(t) - 1 /\ Head(t) = t[1]
      /\ \A i \in 1..Len(Tail(t)) : Tail(t)[i] = t[i + 1]
  OBVIOUS
<1>2. Len(t) \in 1..Len(s) /\ Head(t) = s[Len(s) - Len(t) + 1]
  BY <1>1 DEF IsRest
<1>3. ASSUME NEW i \in 1..Len(Tail(t))
      PROVE  Tail(t)[i] = s[Len(s) - Len(Tail(t)) + i]
  <2>1. i + 1 \in 1..Len(t) /\ Len(s) - Len(Tail(t)) + i = Len(s) - Len(t) + (i + 1)
    BY <1>1
  <2>2. t[i + 1] = s[Len(s) - Len(t) + (i + 1)]
    BY <2>1 DEF IsRest
  <2> QED BY <1>1, <2>1, <2>2
<1> QED BY <1>1, <1>2, <1>3 DEF IsRest

\* The next call of a line, by how many are left.
LEMMA NextCall ==
  ASSUME NEW q, LineInv, RestInv(q), calls # <<>>
  PROVE  /\ line.op \in {"ADD", "MOVE"}
         /\ line.op = "MOVE" =>
              /\ Len(calls) \in 1..21
              /\ Head(calls) = "set_to_be_deleted" <=> Len(calls) = 15
              /\ Head(calls) = "create" <=> Len(calls) = 10
              /\ Len(calls) \in {11, 20} => Head(calls) = "exit_if_exist"
              /\ Len(calls) \in 12..14 => Head(calls) \in {"rm_src_add", "rm_src_del", "put_src_del"}
         /\ line.op = "ADD" =>
              /\ Len(calls) \in 1..5
              /\ Head(calls) # "set_to_be_deleted"
              /\ Head(calls) = "create" <=> Len(calls) = 4
         /\ calls' = Tail(calls) =>
              /\ IsRest(calls', CallsOf(line.op)) /\ Len(calls') = Len(calls) - 1
              /\ Head(calls) = "create" => calls' # <<>> /\ Head(calls') = "rm_dst_add"
              /\ Head(calls) = "rm_dst_add" => calls' # <<>> /\ Head(calls') = "rm_dst_del"
              /\ Head(calls) = "rm_dst_del" => calls' # <<>> /\ Head(calls') = "put_dst_add"
<1> DEFINE s == CallsOf("MOVE")
           t == CallsOf("ADD")
<1>1. /\ s \in Seq(Calls) /\ Len(s) = 21
      /\ s[1] = "exit_if_not_exist" /\ s[2] = "exit_if_exist" /\ s[3] = "find_src"
      /\ s[4] = "sub" /\ s[5] = "exit_if_not_exist" /\ s[6] = "find_src"
      /\ s[7] = "set_to_be_deleted" /\ s[8] = "rm_src_add" /\ s[9] = "rm_src_del"
      /\ s[10] = "put_src_del" /\ s[11] = "exit_if_exist" /\ s[12] = "create"
      /\ s[13] = "rm_dst_add" /\ s[14] = "rm_dst_del" /\ s[15] = "put_dst_add"
      /\ s[16] = "rm_src_add" /\ s[17] = "rm_src_del" /\ s[18] = "put_src_del"
      /\ s[19] = "rm_dst_add" /\ s[20] = "rm_dst_del" /\ s[21] = "put_dst_add"
  BY MoveCalls
<1>2. /\ t \in Seq(Calls) /\ Len(t) = 5
      /\ t[1] = "exit_if_exist" /\ t[2] = "create" /\ t[3] = "rm_dst_add"
      /\ t[4] = "rm_dst_del" /\ t[5] = "put_dst_add"
  BY AddDelCalls
<1>3. line.op \in {"ADD", "MOVE"} /\ IsRest(calls, CallsOf(line.op)) /\ calls \in Seq(Calls)
  BY DEF RestInv, LineInv, Shape
<1> HIDE DEF s, t
<1>4. CASE line.op = "MOVE"
  <2>1. IsRest(calls, s)
    BY <1>3, <1>4 DEF s
  <2>2. /\ IsRest(Tail(calls), s) /\ Len(Tail(calls)) = Len(calls) - 1
        /\ Len(calls) \in 1..21 /\ Head(calls) = s[21 - Len(calls) + 1]
    BY <1>1, <1>3, <2>1, RestTail
  <2>3. ASSUME Tail(calls) # <<>>
        PROVE  Head(Tail(calls)) = s[21 - (Len(calls) - 1) + 1]
    <3>1. Tail(calls) \in Seq(Calls)
      BY <1>3
    <3>2. Head(Tail(calls)) = s[Len(s) - Len(Tail(calls)) + 1]
      BY <1>1, <2>2, <2>3, <3>1, RestTail, Zenon
    <3> QED BY <1>1, <2>2, <3>2, Zenon
  <2>4. PICK k \in 1..21 : /\ Len(calls) = 22 - k /\ 21 - Len(calls) + 1 = k
                           /\ 21 - (Len(calls) - 1) + 1 = k + 1
    <3>1. \A n \in 1..21 :
            \E k \in 1..21 : n = 22 - k /\ 21 - n + 1 = k /\ 21 - (n - 1) + 1 = k + 1
      <4> TAKE n \in 1..21
      <4>1. 22 - n \in 1..21
        OBVIOUS
      <4> WITNESS 22 - n \in 1..21
      <4> QED OBVIOUS
    <3> QED BY <2>2, <3>1, Zenon
  <2>5. /\ Head(calls) = s[k]
        /\ Tail(calls) # <<>> => Head(Tail(calls)) = s[k + 1]
        /\ k < 21 => Tail(calls) # <<>>
    <3>1. Head(calls) = s[k] /\ (Tail(calls) # <<>> => Head(Tail(calls)) = s[k + 1])
      BY <2>2, <2>3, <2>4, Zenon
    <3>2. k < 21 => Len(calls) - 1 # 0
      BY <2>4
    <3>3. Len(<<>>) = 0
      OBVIOUS
    <3> QED BY <2>2, <3>1, <3>2, <3>3, Zenon
  <2>6. /\ s[k] = "set_to_be_deleted" <=> k = 7
        /\ s[k] = "create" <=> k = 12
        /\ k \in {11, 2} => s[k] = "exit_if_exist"
        /\ k \in 8..10 => s[k] \in {"rm_src_add", "rm_src_del", "put_src_del"}
        /\ s[k] = "create" => k < 21 /\ s[k + 1] = "rm_dst_add"
        /\ s[k] = "rm_dst_add" => k < 21 /\ s[k + 1] = "rm_dst_del"
        /\ s[k] = "rm_dst_del" => k < 21 /\ s[k + 1] = "put_dst_add"
    BY <1>1, SMTT(60)
  <2>7. IsRest(Tail(calls), CallsOf(line.op))
    BY <1>4, <2>2 DEF s
  <2>8. /\ k = 7 <=> Len(calls) = 15
        /\ k = 12 <=> Len(calls) = 10
        /\ Len(calls) \in {11, 20} => k \in {11, 2}
        /\ Len(calls) \in 12..14 => k \in 8..10
    BY <2>4
  <2>9. calls' = Tail(calls) =>
          /\ IsRest(calls', CallsOf(line.op)) /\ Len(calls') = Len(calls) - 1
          /\ Head(calls) = "create" => calls' # <<>> /\ Head(calls') = "rm_dst_add"
          /\ Head(calls) = "rm_dst_add" => calls' # <<>> /\ Head(calls') = "rm_dst_del"
          /\ Head(calls) = "rm_dst_del" => calls' # <<>> /\ Head(calls') = "put_dst_add"
    BY <2>2, <2>5, <2>6, <2>7
  <2> QED BY <1>4, <2>2, <2>5, <2>6, <2>8, <2>9
<1>5. CASE line.op = "ADD"
  <2>1. IsRest(calls, t)
    BY <1>3, <1>5 DEF t
  <2>2. /\ IsRest(Tail(calls), t) /\ Len(Tail(calls)) = Len(calls) - 1
        /\ Len(calls) \in 1..5 /\ Head(calls) = t[5 - Len(calls) + 1]
    BY <1>2, <1>3, <2>1, RestTail
  <2>3. ASSUME Tail(calls) # <<>>
        PROVE  Head(Tail(calls)) = t[5 - (Len(calls) - 1) + 1]
    <3>1. Tail(calls) \in Seq(Calls)
      BY <1>3
    <3>2. Head(Tail(calls)) = t[Len(t) - Len(Tail(calls)) + 1]
      BY <1>2, <2>2, <2>3, <3>1, RestTail, Zenon
    <3> QED BY <1>2, <2>2, <3>2, Zenon
  <2>4. PICK k \in 1..5 : /\ Len(calls) = 6 - k /\ 5 - Len(calls) + 1 = k
                           /\ 5 - (Len(calls) - 1) + 1 = k + 1
    <3>1. \A n \in 1..5 :
            \E k \in 1..5 : n = 6 - k /\ 5 - n + 1 = k /\ 5 - (n - 1) + 1 = k + 1
      <4> TAKE n \in 1..5
      <4>1. 6 - n \in 1..5
        OBVIOUS
      <4> WITNESS 6 - n \in 1..5
      <4> QED OBVIOUS
    <3> QED BY <2>2, <3>1, Zenon
  <2>5. /\ Head(calls) = t[k]
        /\ Tail(calls) # <<>> => Head(Tail(calls)) = t[k + 1]
        /\ k < 5 => Tail(calls) # <<>>
    <3>1. Head(calls) = t[k] /\ (Tail(calls) # <<>> => Head(Tail(calls)) = t[k + 1])
      BY <2>2, <2>3, <2>4, Zenon
    <3>2. k < 5 => Len(calls) - 1 # 0
      BY <2>4
    <3>3. Len(<<>>) = 0
      OBVIOUS
    <3> QED BY <2>2, <3>1, <3>2, <3>3, Zenon
  <2>6. /\ t[k] # "set_to_be_deleted"
        /\ t[k] = "create" <=> k = 2
        /\ t[k] = "create" => k < 5 /\ t[k + 1] = "rm_dst_add"
        /\ t[k] = "rm_dst_add" => k < 5 /\ t[k + 1] = "rm_dst_del"
        /\ t[k] = "rm_dst_del" => k < 5 /\ t[k + 1] = "put_dst_add"
    BY <1>2, SMTT(60)
  <2>7. IsRest(Tail(calls), CallsOf(line.op))
    BY <1>5, <2>2 DEF t
  <2>8. k = 2 <=> Len(calls) = 4
    BY <2>4
  <2>9. calls' = Tail(calls) =>
          /\ IsRest(calls', CallsOf(line.op)) /\ Len(calls') = Len(calls) - 1
          /\ Head(calls) = "create" => calls' # <<>> /\ Head(calls') = "rm_dst_add"
          /\ Head(calls) = "rm_dst_add" => calls' # <<>> /\ Head(calls') = "rm_dst_del"
          /\ Head(calls) = "rm_dst_del" => calls' # <<>> /\ Head(calls') = "put_dst_add"
    BY <2>2, <2>5, <2>6, <2>7
  <2> QED BY <1>5, <2>2, <2>5, <2>6, <2>8, <2>9
<1> QED BY <1>3, <1>4, <1>5

\* What a call of apply does besides.
LEMMA CallMore ==
  ASSUME ApplyStep, calls # <<>>
  PROVE  /\ deletable' \subseteq deletable
         /\ src' \in {src} \cup InstancesAt(line.part, line.from)
         /\ \A id \in plan_add \ plan_add' :
              \/ Head(calls) = "rm_dst_add" /\ id = dst
              \/ Head(calls) = "rm_src_add" /\ id = src
<1> USE DEF Continue, Call, storeVars
<1>1. CASE exit_if_not_exist \/ exit_if_exist \/ subshell \/ find_src
  BY <1>1 DEF exit_if_not_exist, exit_if_exist, subshell, find_src
<1>2. CASE set_to_be_deleted
  BY <1>2 DEF set_to_be_deleted, jobVars, planVars
<1>3. CASE create
  BY <1>3 DEF create, jobVars, planVars
<1>4. CASE rm_from_job_list
  BY <1>4 DEF rm_from_job_list, RemoveAdd, RemoveDel
<1>5. CASE put_to_job_list_add
  BY <1>5 DEF put_to_job_list_add
<1>6. CASE put_to_job_list_del
  BY <1>6 DEF put_to_job_list_del
<1> QED
  BY <1>1, <1>2, <1>3, <1>4, <1>5, <1>6 DEF ApplyStep, read_line
-----------------------------------------------------------------------------
\* How the commit comes to delete, to mark and to drop an instance, and how it has
\* looked at plan_add.
Deletes ==
  /\ sh'.pc = "del_rm" =>
       /\ sh'.inst = sh.inst /\ sh.inst \in plan_del /\ (sh.inst \in deletable \/ sh.none)
       /\ sh.pc = "del_get" /\ UNCHANGED <<state, deletable>>
  /\ sh'.pc = "del_inst" => sh.pc = "del_rm" /\ sh'.inst = sh.inst /\ state' = state
  /\ sh'.pc \in Deleting =>
       \/ sh.pc \in Deleting /\ sh'.none = sh.none
       \/ sh'.none => plan_add' = {}
Marks ==
  /\ sh'.pc \in {"start_rm", "layer_rm"} =>
       /\ sh.pc \in {"start_set", "layer_set"} /\ sh'.inst = sh.inst
       /\ state' = [state EXCEPT ![sh.inst] = "RUNNING"]
  /\ sh'.pc \in {"mark_list", "mark"} =>
       sh.pc \in {"start_rm", "mark_list", "mark"} /\ sh'.inst = sh.inst /\ state' = state
  /\ deletable' \subseteq deletable \/ (sh.pc = "mark" /\ deletable' \subseteq plan_del)
Drops ==
  \A id \in plan_add \ plan_add' :
    ~Exists(id) \/ (sh.pc \in {"start_rm", "layer_rm"} /\ id = sh.inst)

\* A step of the commit deletes, marks and drops only what is said above.
LEMMA CommitGoes ==
  ASSUME StoreTypeOK, CommitTypeOK, CommitStep \/ StartCommit
  PROVE  Deletes /\ Marks /\ Drops
<1> USE DEF Deletes, Marks, Drops, Deleting, At
<1>1. /\ DOMAIN sh = {"pc", "list", "inst", "none", "PARTITION_ID", "marks", "marked",
                      "groups", "dump"}
      /\ Stopped.pc \in {"idle", "dump"} /\ Idle.pc = "idle"
      /\ \A label : To(label).pc = label /\ To(label).inst = sh.inst /\ To(label).none = sh.none
  BY DEF CommitTypeOK, Stopped, Idle, To
<1>2. CASE reset_new_layer
  BY <1>1, <1>2 DEF reset_new_layer, storeVars, instanceVars, planVars, CommitTypeOK, To
<1>3. CASE list_plan
  BY <1>1, <1>3 DEF list_plan, storeVars, instanceVars, planVars, CommitTypeOK, To
<1>4. CASE look_at_plan_add
  BY <1>1, <1>4 DEF look_at_plan_add, storeVars, instanceVars, planVars, CommitTypeOK, To
<1>5. CASE loop_ends
  BY <1>1, <1>5 DEF loop_ends, storeVars, instanceVars, planVars, CommitTypeOK, To, Loops
<1>6. CASE next_instance
  <2>1. /\ sh'.none = sh.none /\ sh.pc \in Loops /\ sh'.pc \in {sh.pc, Body[sh.pc]}
        /\ state' = state /\ deletable' \subseteq deletable
        /\ \A id \in plan_add \ plan_add' : ~Exists(id)
    BY <1>1, <1>6 DEF next_instance, planVars, instanceVars, RemoveAdd, RemoveDel
  <2>2. \/ sh.pc = "del_loop" /\ sh'.pc \in {"del_loop", "del_get"}
        \/ sh'.pc \in {"start_loop", "layer_loop", "start_get", "layer_get"}
    BY <2>1 DEF Loops, Body
  <2> QED BY <2>1, <2>2
<1>7. CASE del_get
  <2>1. /\ UNCHANGED <<state, plan_add, deletable>> /\ sh.pc = "del_get"
        /\ \/ sh'.pc = Stopped.pc
           \/ /\ sh'.inst = sh.inst /\ sh'.none = sh.none /\ sh.inst \in plan_del
              /\ \/ sh'.pc = "del_loop"
                 \/ sh'.pc = "del_rm" /\ (Value(sh.inst) = "del" \/ sh.none)
    BY <1>1, <1>7 DEF del_get, storeVars, CommitTypeOK, To
  <2>2. sh.inst \in plan_del /\ Value(sh.inst) = "del" => sh.inst \in deletable
    BY CommitAssumption DEF Value, PartOf, Ids, StoreTypeOK
  <2> QED BY <1>1, <2>1, <2>2
<1>8. CASE rm_job_list_del
  BY <1>1, <1>8, ZenonT(60) DEF rm_job_list_del, instanceVars, CommitTypeOK, To, RemoveDel
<1>9. CASE delete_service_instance
  BY <1>1, <1>9 DEF delete_service_instance, storeVars, instanceVars, planVars, CommitTypeOK, To, SetState
<1>10. CASE get_partition
  BY <1>1, <1>10 DEF get_partition, storeVars, instanceVars, planVars, CommitTypeOK, To
<1>11. CASE check_up
  BY <1>1, <1>11 DEF check_up, storeVars, instanceVars, planVars, CommitTypeOK, To, CheckUp
<1>12. CASE start_service_instance
  BY <1>1, <1>12 DEF start_service_instance, storeVars, instanceVars, planVars, CommitTypeOK, To, SetState
<1>13. CASE rm_job_list_add
  <2>1. /\ UNCHANGED <<state, deletable>> /\ sh.pc \in {"start_rm", "layer_rm"}
        /\ plan_add' \in {plan_add, plan_add \ {sh.inst}}
    BY <1>13 DEF rm_job_list_add, RemoveAdd, instanceVars
  <2>2. \/ sh'.pc = "mark_list" /\ sh.pc = "start_rm" /\ sh'.inst = sh.inst
        \/ sh'.pc \in {"layer_loop", "idle", "dump"}
    BY <1>1, <1>13 DEF rm_job_list_add, CommitTypeOK, To
  <2> QED BY <2>1, <2>2
<1>14. CASE list_marks
  BY <1>1, <1>14 DEF list_marks, storeVars, instanceVars, planVars, CommitTypeOK, To
<1>15. CASE mark_one
  <2>1. /\ sh.pc = "mark" /\ UNCHANGED <<state, plan_add>> /\ deletable' \subseteq plan_del
        /\ \/ sh'.pc = "mark" /\ sh'.inst = sh.inst
           \/ sh'.pc = Stopped.pc
    BY <1>1, <1>15 DEF mark_one, instanceVars, StoreTypeOK
  <2> QED BY <1>1, <2>1
<1>16. CASE marks_end
  BY <1>1, <1>16 DEF marks_end, storeVars, instanceVars, planVars, CommitTypeOK, To
<1>17. CASE is_all_new_layer_ok
  BY <1>1, <1>17 DEF is_all_new_layer_ok, storeVars, instanceVars, planVars, CommitTypeOK, To
<1>18. CASE dump
  BY <1>1, <1>18 DEF dump, storeVars, instanceVars, planVars, CommitTypeOK, To
<1>19. CASE connection_commit
  BY <1>1, <1>19 DEF connection_commit, storeVars, instanceVars, planVars, CommitTypeOK, To
<1>20. CASE StartCommit
  BY <1>1, <1>20 DEF StartCommit, storeVars, instanceVars, planVars, CommitTypeOK, To
<1> QED
  BY <1>2, <1>3, <1>4, <1>5, <1>6, <1>7, <1>8, <1>9, <1>10, <1>11, <1>12, <1>13, <1>14, <1>15, <1>16, <1>17, <1>18, <1>19, <1>20 DEF CommitStep

\* A step of the commit keeps the partition served.
LEMMA CommitServes ==
  ASSUME NEW q, IInv, MoveInv(q), CommitStep \/ StartCommit, UNCHANGED <<applyVars, regime>>,
         CommitRunning \/ sh'.pc \in Scripted => ApplyIdle
  PROVE  MoveInv(q)'
<1>1. /\ plan_add' \subseteq plan_add /\ plan_del' \subseteq plan_del /\ node' = node
      /\ sh.pc \notin {"del_inst", "start_set", "layer_set"} => state' = state
      /\ \A id \in Ids : state'[id] # state[id] =>
           /\ id = sh.inst /\ Exists(id)
           /\ \/ sh.pc = "del_inst" /\ state'[id] = "absent"
              \/ sh.pc \in {"start_set", "layer_set"} /\ state'[id] = "RUNNING"
  BY CommitEffect DEF IInv, TypeOK
<1>2. Deletes /\ Marks /\ Drops
  BY CommitGoes DEF IInv, TypeOK
<1>3. /\ regime.locked /\ UNCHANGED <<lines, calls, line, src, dst>>
      /\ \A id \in plan_del : Gone(id)
      /\ sh.pc = "del_inst" => Gone(sh.inst)
      /\ sh.pc \in {"start_set", "layer_set"} => sh.inst \in plan_add
      /\ deletable \subseteq plan_del /\ plan_del \subseteq Ids /\ plan_add \subseteq Ids
      /\ state \in [Ids -> States]
  BY DEF MoveInv, IInv, LockInv, TypeOK, StoreTypeOK, applyVars
<1>4. /\ sh.pc \in Deleting \cup {"mark"} => calls = <<>>
      /\ Between' = Between /\ (Moving /\ Len(calls) \in 11..19)' = (Moving /\ Len(calls) \in 11..19)
  BY <1>3 DEF CommitRunning, Scripted, Deleting, ApplyIdle, Between, Moving
<1>5. \A id \in Ids : state'[id] # state[id] =>
        (state'[id] = "RUNNING" \/ (Gone(id) /\ sh.pc = "del_inst" /\ id = sh.inst))
  BY <1>1, <1>3
<1>6. RestInv(q)'
  BY <1>1, <1>3 DEF MoveInv, RestInv, Of, IsRest
<1>7. FreeInv'
  <2>1. \A id \in Ids : Exists(id)' => Exists(id)
    BY <1>1 DEF Exists
  <2> QED BY <1>1, <1>3, <1>4, <2>1 DEF MoveInv, FreeInv, InstancesAt
<1>8. NewInv'
  <2> SUFFICES ASSUME NEW id \in Ids, state'[id] = "NEW"
               PROVE  \/ id \in plan_add'
                      \/ /\ calls # <<>> /\ id = dst
                         /\ Head(calls) \in {"rm_dst_add", "rm_dst_del", "put_dst_add"}
    BY <1>3 DEF NewInv
  <2>1. state[id] = "NEW"
    BY <1>1
  <2>2. id \in plan_add => id \in plan_add'
    BY <1>2, <2>1 DEF Drops, Exists, MoveInv, RunningInv
  <2> QED BY <2>1, <2>2 DEF MoveInv, NewInv
<1>9. RunningInv(q)'
  <2>1. plan_add \subseteq Of(q) /\ sh.inst \in Ids => sh.inst \in DOMAIN state
    BY <1>3 DEF MoveInv, RestInv
  <2>2. CASE sh'.pc \in {"start_rm", "layer_rm"}
    BY <1>2, <1>3, <2>1, <2>2 DEF Marks, RunningInv, MoveInv, RestInv
  <2>3. CASE sh'.pc \in {"mark_list", "mark"}
    BY <1>2, <2>3 DEF Marks, RunningInv, MoveInv
  <2> QED BY <2>2, <2>3 DEF RunningInv
<1>10. NoneInv'
  BY <1>1, <1>2 DEF Deletes, NoneInv, MoveInv
<1>11. ASSUME NEW id \in DOMAIN Placed, PartOf(id) # q
       PROVE  state'[id] = "RUNNING"
  <2>1. id \in Ids /\ state[id] = "RUNNING"
    BY <1>11, StoreAssumption DEF MoveInv, ServedInv
  <2> QED BY <1>5, <2>1 DEF Gone
<1>12. ASSUME PlacedAt(q)
       PROVE  FirstInv(q)' /\ MarkInv(q)' /\ \E id \in Of(q) : id \in Serving'
  <2>1. FirstInv(q) /\ MarkInv(q) /\ \E id \in Of(q) : id \in Serving
    BY <1>12 DEF MoveInv, ServedInv
  <2>2. \A id \in Of(q) : id \in Ids
    BY DEF Of
  <2>3. FirstInv(q)'
    BY <1>4, <1>5, <2>1, <2>2 DEF FirstInv, Of, Gone
  <2>4. \A id \in Serving : id \in Serving' \/ (sh.pc = "del_inst" /\ id = sh.inst)
    BY <1>5 DEF Serving
  <2>5. \E id \in Of(q) : id \in Serving'
    BY <2>1, <2>4 DEF MarkInv
  <2>6. MarkInv(q)'
    <3>1. CASE sh'.pc = "del_rm"
      <4>1. /\ sh'.inst = sh.inst /\ sh.inst \in plan_del /\ (sh.inst \in deletable \/ sh.none)
            /\ sh.pc = "del_get" /\ UNCHANGED <<state, deletable>>
        BY <1>2, <3>1 DEF Deletes
      <4>2. \E id \in Of(q) : id \in Serving /\ id \notin deletable /\ id # sh.inst
        <5>1. CASE sh.inst \in deletable
          BY <2>1, <5>1 DEF MarkInv
        <5>2. CASE sh.none
          <6>1. plan_add = {} /\ calls = <<>> /\ ~Between
            BY <1>4, <4>1, <5>2 DEF MoveInv, NoneInv, Deleting, Between, Moving
          <6>2. PICK id \in Of(q) : state[id] = "RUNNING"
            BY <2>1, <2>2, <6>1 DEF FirstInv, MoveInv, NewInv
          <6> QED BY <1>3, <2>2, <4>1, <6>2 DEF Gone, Serving
        <5> QED BY <4>1, <5>1, <5>2
      <4>3. Serving' = Serving
        BY <4>1 DEF Serving
      <4> QED BY <4>1, <4>2, <4>3 DEF MarkInv
    <3>2. CASE sh'.pc = "del_inst"
      <4>1. sh.pc = "del_rm" /\ sh'.inst = sh.inst /\ state' = state /\ deletable' \subseteq deletable
        BY <1>2, <3>2 DEF Deletes, Marks
      <4>2. Serving' = Serving
        BY <4>1 DEF Serving
      <4> QED BY <2>1, <4>1, <4>2 DEF MarkInv
    <3>3. CASE sh'.pc \notin {"del_rm", "del_inst"} /\ deletable' # {}
      <4>1. CASE deletable' \subseteq deletable
        <5>1. \E id \in Of(q) :
                id \in Serving /\ id \notin deletable /\ (sh.pc = "del_inst" => id # sh.inst)
          BY <2>1, <3>3, <4>1 DEF MarkInv
        <5> QED BY <2>4, <3>3, <4>1, <5>1 DEF MarkInv
      <4>2. CASE sh.pc = "mark" /\ deletable' \subseteq plan_del
        <5>1. sh.inst \in Of(q) /\ state[sh.inst] = "RUNNING" /\ state' = state
          BY <1>1, <4>2 DEF MoveInv, RunningInv
        <5>2. sh.inst \in Serving' /\ sh.inst \notin deletable'
          BY <1>3, <2>2, <4>2, <5>1 DEF Gone, Serving
        <5> QED BY <3>3, <5>1, <5>2 DEF MarkInv
      <4> QED BY <1>2, <4>1, <4>2 DEF Marks
    <3> QED BY <3>1, <3>2, <3>3 DEF MarkInv
  <2> QED BY <2>3, <2>5, <2>6
<1>13. ServedInv(q)'
  BY <1>11, <1>12 DEF ServedInv, PlacedAt, Of
<1> QED BY <1>3, <1>6, <1>7, <1>8, <1>9, <1>10, <1>13 DEF MoveInv, IInv, TypeOK

\* A call of apply keeps it served: the new node is known to be free before the
\* old instance is given up.
LEMMA CallServes ==
  ASSUME NEW q, IInv, MoveInv(q), ApplyStep, calls # <<>>, Effect(Head(calls)),
         UNCHANGED <<sh, regime>>
  PROVE  MoveInv(q)'
<1> DEFINE h == Head(calls)
<1>1. /\ calls' = Tail(calls) /\ UNCHANGED <<lines, line>>
      /\ h # "create" => dst' = dst /\ UNCHANGED node /\
                         state' = IF h = "set_to_be_deleted"
                                  THEN [state EXCEPT ![src] = "TO_BE_DELETED"] ELSE state
      /\ h = "exit_if_exist" => InstancesAt(line.part, line.to) = {}
      /\ h = "set_to_be_deleted" => Exists(src)
      /\ h = "put_dst_add" => plan_add' = plan_add \cup {dst}
      /\ h # "put_dst_add" => plan_add' \subseteq plan_add
  BY DEF Effect
<1>2. /\ regime.locked /\ ~CommitRunning /\ state \in [Ids -> States] /\ plan_add \subseteq Ids
      /\ \A id \in Ids : Exists(id) => id \in Known
  BY DEF MoveInv, IInv, LockInv, PlaceInv, ApplyIdle, TypeOK, StoreTypeOK
<1>3. /\ line.op \in {"ADD", "MOVE"} /\ line.part = q
      /\ line.op = "MOVE" =>
           /\ Len(calls) \in 1..21
           /\ h = "set_to_be_deleted" <=> Len(calls) = 15
           /\ h = "create" <=> Len(calls) = 10
           /\ Len(calls) = 20 => h = "exit_if_exist"
      /\ line.op = "ADD" => h # "set_to_be_deleted"
      /\ IsRest(calls', CallsOf(line.op)) /\ Len(calls') = Len(calls) - 1
      /\ h = "create" => calls' # <<>> /\ Head(calls') = "rm_dst_add"
      /\ h = "rm_dst_add" => calls' # <<>> /\ Head(calls') = "rm_dst_del"
      /\ h = "rm_dst_del" => calls' # <<>> /\ Head(calls') = "put_dst_add"
  BY <1>1, NextCall DEF MoveInv, IInv, RestInv
<1>4. /\ deletable' \subseteq deletable
      /\ src' \in {src} \cup InstancesAt(line.part, line.from)
      /\ \A id \in plan_add \ plan_add' :
           (h = "rm_dst_add" /\ id = dst) \/ (h = "rm_src_add" /\ id = src)
  BY CallMore
<1>5. /\ h = "put_dst_add" => dst \in Ids
      /\ h = "set_to_be_deleted" => src \in Ids
      /\ h = "rm_src_add" => Gone(src)
  <2>1. Calling
    BY DEF Calling, ApplyIdle
  <2>2. /\ 1 \in 1..Len(calls) /\ h = calls[1]
        /\ \A name \in Calls : h # name => ~Holds(calls, name, 1)
    BY <2>1, AtHead DEF IInv
  <2> QED BY <1>2, <2>2 DEF IInv, LineInv, Calls, Known
<1>6. h = "create" => /\ dst' \in Ids /\ dst' \notin Known /\ PartOf(dst') = q
                      /\ state' = [state EXCEPT ![dst'] = "NEW"]
  BY <1>3, CreateEffect DEF IInv, TypeOK
<1> HIDE DEF h
<1>7. \A id \in Ids :
        /\ state'[id] # state[id] =>
             \/ h = "create" /\ id = dst' /\ ~Exists(id) /\ state'[id] = "NEW"
             \/ /\ h = "set_to_be_deleted" /\ id = src /\ Exists(id)
                /\ state'[id] = "TO_BE_DELETED"
        /\ h = "create" /\ id = dst' => state'[id] = "NEW" /\ PartOf(id) = q
  BY <1>1, <1>2, <1>5, <1>6
<1>8. RestInv(q)'
  <2>1. src' \in Ids => PartOf(src') = q
    BY <1>3, <1>4 DEF MoveInv, RestInv, InstancesAt
  <2>2. dst' \in Ids => PartOf(dst') = q
    BY <1>1, <1>6 DEF MoveInv, RestInv
  <2>3. plan_add' \subseteq Of(q)
    BY <1>1, <1>5 DEF MoveInv, RestInv, Of
  <2> QED BY <1>1, <1>3, <2>1, <2>2, <2>3 DEF MoveInv, RestInv
<1>9. FreeInv'
  <2> SUFFICES ASSUME line.op = "MOVE", Len(calls') \in 11..19
               PROVE  InstancesAt(line.part, line.to)' = {}
    BY <1>1 DEF FreeInv, Moving
  <2>1. h # "create" /\ (Len(calls) \in 11..19 \/ Len(calls) = 20)
    <3>1. /\ Len(calls) \in 1..21 /\ Len(calls') = Len(calls) - 1
          /\ h = "create" <=> Len(calls) = 10
      BY <1>3
    <3>2. \A n \in 1..21 : n - 1 \in 11..19 => n # 10 /\ (n \in 11..19 \/ n = 20)
      OBVIOUS
    <3> QED BY <3>1, <3>2, Zenon
  <2>2. InstancesAt(line.part, line.to) = {}
    BY <1>1, <1>3, <2>1 DEF MoveInv, FreeInv, Moving
  <2>3. \A id \in Ids : Exists(id)' => Exists(id)
    BY <1>7, <2>1 DEF Exists
  <2> QED BY <1>1, <2>1, <2>2, <2>3 DEF InstancesAt
<1>10. NewInv'
  <2> SUFFICES ASSUME NEW id \in Ids, state'[id] = "NEW", id \notin plan_add'
               PROVE  /\ calls' # <<>> /\ id = dst'
                      /\ Head(calls') \in {"rm_dst_add", "rm_dst_del", "put_dst_add"}
    BY DEF NewInv
  <2>1. CASE h = "create" /\ id = dst'
    BY <1>3, <2>1
  <2>2. CASE state[id] = "NEW"
    <3>1. \/ id \in plan_add
          \/ id = dst /\ h \in {"rm_dst_add", "rm_dst_del", "put_dst_add"}
      BY <2>2 DEF MoveInv, NewInv, h
    <3>2. id = dst /\ h \in {"rm_dst_add", "rm_dst_del"}
      BY <1>1, <1>4, <1>5, <2>2, <3>1 DEF Gone
    <3> QED BY <1>1, <1>3, <3>2
  <2> QED BY <1>7, <2>1, <2>2
<1>11. RunningInv(q)' /\ NoneInv'
  BY <1>2 DEF RunningInv, NoneInv, CommitRunning, Scripted, Deleting
<1>12. ASSUME NEW id \in DOMAIN Placed, PartOf(id) # q
       PROVE  state'[id] = "RUNNING"
  <2>1. id \in Ids /\ state[id] = "RUNNING"
    BY <1>12, StoreAssumption DEF MoveInv, ServedInv
  <2>2. id # src
    BY <1>12, <2>1 DEF MoveInv, RestInv
  <2> QED BY <1>7, <2>1, <2>2 DEF Exists
<1>13. \A id \in Serving : id \in Serving'
  BY <1>7 DEF Serving, Exists
<1>14. ASSUME FirstInv(q) PROVE FirstInv(q)'
  <2>1. CASE Between
    <3>1. CASE Len(calls) = 10
      <4>1. h = "create"
        BY <1>3, <2>1, <3>1 DEF Between, Moving
      <4> QED BY <1>6, <1>7, <4>1 DEF FirstInv, Of
    <3>2. CASE Len(calls) \in 11..14
      <4>1. Len(calls') = Len(calls) - 1
        BY <1>3
      <4>2. \A m \in 11..14 : m - 1 \in 10..14 /\ m - 1 # 0
        OBVIOUS
      <4>3. Len(<<>>) = 0
        OBVIOUS
      <4> QED BY <1>1, <2>1, <3>2, <4>1, <4>2, <4>3, Zenon DEF FirstInv, Between, Moving
    <3> QED BY <2>1, <3>1, <3>2 DEF Between
  <2>2. CASE \E id \in Of(q) : state[id] \in {"NEW", "RUNNING"}
    <3>1. PICK id \in Of(q) : state[id] \in {"NEW", "RUNNING"}
      BY <2>2
    <3>2. CASE h # "set_to_be_deleted"
      BY <1>7, <3>1, <3>2 DEF FirstInv, Of
    <3>3. CASE h = "set_to_be_deleted"
      <4>1. line.op = "MOVE" /\ Len(calls) = 15 /\ Len(calls') = Len(calls) - 1
        BY <1>3, <3>3, Zenon
      <4>2. 15 - 1 \in 10..14 /\ 15 - 1 # 0 /\ Len(<<>>) = 0
        OBVIOUS
      <4> QED BY <1>1, <4>1, <4>2, Zenon DEF FirstInv, Between, Moving
    <3> QED BY <3>2, <3>3
  <2> QED BY <1>14, <2>1, <2>2 DEF FirstInv
<1>15. ASSUME MarkInv(q) PROVE MarkInv(q)'
  <2>1. sh.pc \notin {"del_rm", "del_inst"} /\ sh' = sh
    BY <1>2 DEF CommitRunning, Scripted
  <2> QED BY <1>4, <1>13, <1>15, <2>1 DEF MarkInv
<1>16. ServedInv(q)'
  <2>1. PlacedAt(q) => FirstInv(q)' /\ MarkInv(q)' /\ \E id \in Of(q) : id \in Serving'
    BY <1>13, <1>14, <1>15 DEF MoveInv, ServedInv
  <2> QED BY <1>12, <2>1 DEF ServedInv, PlacedAt
<1> QED BY <1>8, <1>9, <1>10, <1>11, <1>16 DEF MoveInv

\* The other steps keep it, too: apply begins, reads a line or gives one up, and
\* services come up and go down.
LEMMA MoveKept ==
  ASSUME NEW q, MovesOnly(q), IInv, MoveInv(q), [Next]_vars
  PROVE  MoveInv(q)'
<1>1. ~MayBeKilled /\ ~MayFail /\ regime.locked
  BY DEF MoveInv, MayBeKilled, MayFail
<1>2. UNCHANGED regime
  BY DEF Next, BeginApply, Apply, BeginCommit, Commit, Agent, Mishap, vars
<1>3. ASSUME UNCHANGED <<state, node, plan_add, deletable, sh>>,
             RestInv(q)', Between => Between',
             Moving' => Len(calls') \notin 11..19 \/ UNCHANGED <<calls, line>>,
             \/ UNCHANGED <<calls, dst>>
             \/ calls = <<>>
             \/ Head(calls) \notin {"rm_dst_add", "rm_dst_del", "put_dst_add"}
      PROVE  MoveInv(q)'
  <2>1. Serving' = Serving
    BY <1>3 DEF Serving
  <2>2. FreeInv'
    BY <1>3 DEF MoveInv, FreeInv, Moving, InstancesAt, Exists
  <2>3. NewInv'
    BY <1>3 DEF MoveInv, NewInv
  <2>4. RunningInv(q)' /\ NoneInv'
    BY <1>3 DEF MoveInv, RunningInv, NoneInv
  <2>5. ServedInv(q)'
    <3>1. FirstInv(q) => FirstInv(q)'
      BY <1>3 DEF FirstInv
    <3>2. MarkInv(q) => MarkInv(q)'
      BY <1>3, <2>1 DEF MarkInv
    <3> QED BY <1>3, <2>1, <3>1, <3>2 DEF MoveInv, ServedInv, PlacedAt
  <2> QED BY <1>2, <1>3, <2>2, <2>3, <2>4, <2>5 DEF MoveInv
<1>4. CASE BeginApply
  <2>1. /\ UNCHANGED <<calls, line, src, dst, storeVars, sh>> /\ lines' \in Plans
        /\ calls = <<>>
    BY <1>4 DEF BeginApply, StartApply, ApplyIdle
  <2>2. RestInv(q)'
    BY <2>1 DEF MoveInv, RestInv, MovesOnly, storeVars
  <2> QED BY <1>3, <2>1, <2>2 DEF storeVars, Between, Moving
<1>5. CASE Apply /\ calls = <<>>
  <2>1. read_line /\ UNCHANGED sh
    BY <1>5 DEF Apply, ApplyStep, Call, exit_if_not_exist, exit_if_exist, subshell, find_src,
       set_to_be_deleted, create, rm_from_job_list, put_to_job_list_add, put_to_job_list_del
  <2>2. /\ Len(lines) \in Nat \ {0} /\ Head(lines) = lines[1] /\ Head(lines) \in PlanLines
        /\ Len(Tail(lines)) = Len(lines) - 1
        /\ \A i \in 1..Len(Tail(lines)) : Tail(lines)[i] = lines[i + 1] /\ i + 1 \in 1..Len(lines)
    BY <2>1 DEF read_line, IInv, LineInv
  <2>3. /\ line' = Head(lines) /\ lines' = Tail(lines) /\ calls' = CallsOf(line'.op)
        /\ UNCHANGED storeVars /\ src' = NoId /\ dst' = NoId
    BY <2>1 DEF read_line
  <2>4. line'.op \in {"ADD", "MOVE"} /\ line'.part = q
    BY <2>2, <2>3 DEF MoveInv, RestInv, PlanLines
  <2>5. IsRest(calls', CallsOf(line'.op)) /\ (line'.op = "MOVE" => Len(calls') = 21)
    <3>1. Len(calls') \in Nat /\ (line'.op = "MOVE" => Len(calls') = 21)
      <4>1. Len(CallsOf("MOVE")) = 21 /\ Len(CallsOf("ADD")) = 5
        <5>1. Len(CallsOf("MOVE")) = 21
          BY MoveCalls, Zenon
        <5>2. Len(CallsOf("ADD")) = 5
          BY AddDelCalls, Zenon
        <5> QED BY <5>1, <5>2
      <4>2. 21 \in Nat /\ 5 \in Nat /\ "ADD" # "MOVE"
        OBVIOUS
      <4> QED BY <2>3, <2>4, <4>1, <4>2, Zenon
    <3>2. \A n \in Nat : n <= n /\ \A i \in 1..n : n - n + i = i
      OBVIOUS
    <3> QED BY <2>3, <3>1, <3>2 DEF IsRest
  <2>6. NoId \notin Ids
    BY DEF NoId, Ids
  <2>7. RestInv(q)'
    BY <2>2, <2>3, <2>4, <2>5, <2>6 DEF MoveInv, RestInv, storeVars
  <2>8. ~Between /\ (Moving' => Len(calls') \notin 11..19)
    <3>1. Moving' => Len(calls') = 21
      BY <2>5 DEF Moving
    <3>2. 21 \notin 11..19
      OBVIOUS
    <3> QED BY <1>5, <3>1, <3>2, Zenon DEF Between, Moving
  <2> QED BY <1>3, <1>5, <2>1, <2>3, <2>7, <2>8 DEF storeVars
<1>6. CASE Apply /\ calls # <<>> /\ Effect(Head(calls))
  BY <1>6, CallServes DEF Apply
<1>7. CASE Apply /\ calls # <<>> /\ ~Effect(Head(calls))
  <2>1. Stops /\ UNCHANGED sh
    BY <1>7, CallEffect DEF Apply, IInv
  <2>2. /\ calls' = <<>> /\ lines' \in {lines, <<>>} /\ UNCHANGED <<line, src, dst, storeVars>>
        /\ Head(calls) \in {"exit_if_not_exist", "exit_if_exist", "find_src",
                            "set_to_be_deleted"}
        /\ Head(calls) = "exit_if_exist" => InstancesAt(line.part, line.to) # {}
    BY <2>1 DEF Stops
  <2>3. ~Between
    <3>1. line.op = "MOVE" =>
            /\ Head(calls) # "create" => Len(calls) # 10
            /\ Head(calls) # "exit_if_exist" => Len(calls) # 11
            /\ Len(calls) \in 12..14 => Head(calls) \in {"rm_src_add", "rm_src_del", "put_src_del"}
      BY <1>7, NextCall DEF MoveInv, IInv
    <3>2. line.op = "MOVE" /\ Len(calls) = 11 => Head(calls) # "exit_if_exist"
      BY <1>7, <2>2 DEF MoveInv, FreeInv, Moving
    <3>3. \A n \in 10..14 : n = 10 \/ n = 11 \/ n \in 12..14
      OBVIOUS
    <3> QED BY <2>2, <3>1, <3>2, <3>3 DEF Between, Moving
  <2>4. RestInv(q)'
    <3>1. Len(<<>>) = 0
      OBVIOUS
    <3> QED BY <2>2, <3>1 DEF MoveInv, RestInv, storeVars
  <2> QED BY <1>3, <2>1, <2>2, <2>3, <2>4 DEF storeVars, Moving
<1>8. CASE BeginCommit \/ Commit
  <2>1. CommitRunning \/ sh'.pc \in Scripted => ApplyIdle
    BY <1>1, <1>8, CommitGoesOn DEF BeginCommit, Commit, IInv, TypeOK, LockInv
  <2> QED BY <1>8, <2>1, CommitServes DEF BeginCommit, Commit
<1>9. CASE \E id \in Ids :
             (InstanceComesUp(id) \/ InstanceGoesDown(id)) /\ UNCHANGED <<applyVars, sh>>
  BY <1>3, <1>9 DEF InstanceComesUp, InstanceGoesDown, applyVars, instanceVars, jobVars,
     planVars, MoveInv, RestInv, Between, Moving
<1>10. CASE UNCHANGED vars
  BY <1>3, <1>10 DEF vars, storeVars, applyVars, MoveInv, RestInv, Between, Moving
<1>11. CASE Mishap
  <2>1. \E id \in Ids : InstanceGoesDown(id) /\ UNCHANGED <<applyVars, sh>>
    BY <1>1, <1>11 DEF Mishap
  <2> QED BY <1>9, <2>1
<1>12. CASE Apply
  BY <1>5, <1>6, <1>7, <1>12
<1>13. CASE \E id \in Ids : Agent(id)
  <2>1. \E id \in Ids : InstanceComesUp(id) /\ UNCHANGED <<applyVars, sh>>
    BY <1>13 DEF Agent
  <2> QED BY <1>9, <2>1
<1> QED
  BY <1>4, <1>8, <1>10, <1>11, <1>12, <1>13 DEF Next

\* Moving the instances of a partition, or adding some, never leaves it without one
\* that serves: under the lock, if nothing is killed and no call fails, however
\* often it is moved, whatever the commit has done of it by then, and whichever
\* services go down.  The instances of the other partitions serve on.
THEOREM MovesKeepServing ==
  ASSUME NEW q \in Partitions, MovesOnly(q)
  PROVE  Spec => []KeepsServing
<1> DEFINE J == regime.locked => MoveInv(q)
<1>1. Init => J
  <2> SUFFICES ASSUME Init, regime.locked PROVE MoveInv(q)
    OBVIOUS
  <2>1. regime.mishaps \subseteq {"down", "late"}
    BY DEF Init, MovesOnly
  <2>2. /\ calls = <<>> /\ lines = <<>> /\ src = NoId /\ dst = NoId /\ sh.pc = "idle"
        /\ plan_add = {} /\ deletable = {}
    BY DEF Init, ApplyInit, CommitInit, Idle, StoreInit
  <2>3. RestInv(q)
    <3>1. NoId \notin Ids
      BY DEF NoId, Ids
    <3> QED BY <2>2, <3>1 DEF RestInv
  <2>4. \A id \in Ids : state[id] = IF id \in DOMAIN Placed THEN "RUNNING" ELSE "absent"
    BY DEF Init, StoreInit
  <2>5. FreeInv /\ NewInv /\ RunningInv(q) /\ NoneInv
    BY <2>2, <2>4 DEF FreeInv, Moving, NewInv, RunningInv, NoneInv, Deleting
  <2>6. ServedInv(q)
    BY <2>2, <2>4, StoreAssumption DEF ServedInv, PlacedAt, Of, FirstInv, MarkInv, Serving
  <2> QED BY <2>1, <2>3, <2>5, <2>6 DEF MoveInv
<1>2. IInv /\ J /\ [Next]_vars => J'
  <2>1. [Next]_vars => UNCHANGED regime
    BY DEF Next, BeginApply, Apply, BeginCommit, Commit, Agent, Mishap, vars
  <2> QED BY <2>1, MoveKept
<1>3. J => KeepsServing
  BY StoreAssumption DEF MoveInv, ServedInv, PlacedAt, Of, KeepsServing, Serving
<1> QED BY <1>1, <1>2, <1>3, Invariance, PTL DEF Spec
=============================================================================
