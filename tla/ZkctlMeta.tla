----------------------------- MODULE ZkctlMeta -----------------------------
(***************************************************************************)
(* g_meta, the "super important part" of zkctl.bin: for every type of      *)
(* object its actions, and for every action its implementation and the     *)
(* options it takes.                                                       *)
(***************************************************************************)
EXTENDS ZkctlHandlers, Dictionaries

\* An option: its name, whether it must be given, whether it has an argument.
Opt(name, required, has_arg) == [name |-> name, required |-> required, has_arg |-> has_arg]
Arg(name) == Opt(name, TRUE, TRUE)
MayArg(name) == Opt(name, FALSE, TRUE)
Pretty == Opt("pretty", FALSE, FALSE)

Row(action, impl, options) == action :> [impl |-> impl, options |-> options]

Key == <<Arg("key")>>
KeyValue == <<Arg("key"), Arg("value")>>
KeyNum == <<Arg("key"), Arg("resource-num")>>
Data == <<Arg("data")>>

\* Rows that recur; `own` is the option that names the object, if there is one.
AddDel(T, own) == Row("add", cli_add(T), own \o Data) @@ Row("del", cli_del(T), own)
Keys(T, own) == Row("get-meta-keys", cli_get_meta_keys(T), own)

MetaRows(T, own) ==
  Row("add-meta-attr", cli_add_meta_attr(T), own \o KeyValue)
  @@ Row("del-meta-attr", cli_del_meta_attr(T), own \o Key)
  @@ Row("set-meta-attr", cli_set_meta_attr(T), own \o KeyValue)
  @@ Row("get-meta-attr", cli_get_meta_attr(T), own \o Key)
  @@ Row("set-meta-all", cli_set_meta_all(T), own \o Data)
  @@ Row("get-meta-all", cli_get_meta_all(T), own \o <<Pretty>>)

SemaphoreRows(T, own) ==
  Row("create-semaphore", cli_create_semaphore(T), own \o KeyNum)
  @@ Row("destroy-semaphore", cli_destroy_semaphore(T), own \o Key)
  @@ Row("get-semaphore-resource-num", cli_get_semaphore_resource_num(T), own \o Key)
  @@ Row("set-semaphore-resource-num", cli_set_semaphore_resource_num(T), own \o KeyNum)
  @@ Row("list-semaphore", cli_list_semaphore(T), own)
  @@ Row("list-semaphore-holder", cli_list_semaphore_holder(T), own \o Key)

\* cli_service_*_planned_state_* and cli_sinstance_*: the templates on a state.
StateRows(T, own, state) ==
  Row("add-" \o state \o "-attr", cli_state_add_attr(T, state), own \o KeyValue)
  @@ Row("del-" \o state \o "-attr", cli_state_del_attr(T, state), own \o Key)
  @@ Row("set-" \o state \o "-attr", cli_state_set_attr(T, state), own \o KeyValue)
  @@ Row("get-" \o state \o "-attr", cli_state_get_attr(T, state), own \o Key)
  @@ Row("set-" \o state \o "-all", cli_state_set_all(T, state), own \o Data)
  @@ Row("get-" \o state \o "-all", cli_state_get_all(T, state), own \o <<Pretty>>)
-----------------------------------------------------------------------------
\* create is a repair.
Cluster ==
  Row("create", cli_cluster_repair, <<>>) @@ Row("repair", cli_cluster_repair, <<>>)
  @@ Row("destroy", cli_cluster_destroy, <<>>)
  @@ MetaRows("cluster", <<>>) @@ SemaphoreRows("cluster", <<>>)

\* idc and group have the same rows.
Domain(T, own) ==
  Row("list", cli_list(T), <<>>) @@ AddDel(T, own) @@ MetaRows(T, own) @@ SemaphoreRows(T, own)
Idc == Domain("idc", <<Arg("idc-id")>>)
Group == Domain("group", <<Arg("group-id")>>)

Slavenode == LET own == <<Arg("slavenode-id")>> IN
  Row("list", cli_slavenode_list, <<MayArg("idc-id"), MayArg("group-id")>>)
  @@ AddDel("slavenode", own)
  @@ Row("list-service-instance", cli_slavenode_list_service_instance, own)
  @@ MetaRows("slavenode", own) @@ SemaphoreRows("slavenode", own)

IndexType == LET own == <<Arg("index-type-id")>> IN
  Row("list", cli_list("index-type"), <<>>) @@ AddDel("index-type", own)
  @@ Row("list-index-partition", cli_index_type_list_partition, own)
  @@ MetaRows("index-type", own)

IndexPartition == LET own == <<Arg("index-partition-id")>> IN
  AddDel("index-partition", own)
  @@ Row("list-index", cli_index_partition_list_index, own)
  @@ MetaRows("index-partition", own)

Index == LET own == <<Arg("index-id")>> IN AddDel("index", own) @@ MetaRows("index", own)

Service == LET own == <<Arg("service-id")>> IN
  Row("list", cli_list("service"), <<>>) @@ AddDel("service", own)
  @@ Row("list-service-instance", cli_service_list_service_instance, own)
  @@ MetaRows("service", own) @@ SemaphoreRows("service", own)
  @@ StateRows("service", own, "default-planned-state")

ServiceInstance == LET own == <<Arg("service-instance-id")>> IN
  Row("add", cli_add_service_instance, <<Arg("service-id"), Arg("slavenode-id")>> \o Data)
  @@ Row("del", cli_del("service-instance"), own)
  @@ Row("list", cli_service_instance_list, <<MayArg("slavenode-id")>>)
  @@ Row("dump", cli_service_instance_dump, <<Pretty>>)
  @@ Row("isvalid", cli_service_instance_is_valid, own)
  @@ MetaRows("service-instance", own)
  @@ StateRows("service-instance", own, "planned-state")
  @@ StateRows("service-instance", own, "current-state")

Command ==
  LET instance == <<Arg("service-instance-id")>>
      own == instance \o <<Arg("command-id")>>
  IN Row("generateid", command_generateid, <<>>)
     @@ Row("add", command_add, own \o Data) @@ Row("del", command_del, own)
     @@ Row("list", command_list, instance)
     @@ Row("add-meta-attr", command_add_meta_attr, own \o KeyValue)
     @@ Row("del-meta-attr", command_del_meta_attr, own \o Key)
     @@ Row("set-meta-attr", command_set_meta_attr, own \o KeyValue)
     @@ Row("get-meta-attr", command_get_meta_attr, own \o Key)
     @@ Row("set-meta-all", command_set_meta_all, own \o Data)
     @@ Row("get-meta-all", command_get_meta_all, own \o <<Pretty>>)

Job == LET own == <<Arg("job-id")>> IN
  Row("list", cli_list("job"), <<>>) @@ AddDel("job", own)
  @@ MetaRows("job", own) @@ Keys("job", own)

DyndataMeta == LET own == <<Arg("dyndata-meta-id")>> IN
  Row("list", cli_list("dyndata-meta"), <<>>) @@ AddDel("dyndata-meta", own)
  @@ Row("list-dyndata", cli_list_dyndata, own)
  @@ MetaRows("dyndata-meta", own) @@ Keys("dyndata-meta", own)

Dyndata == LET own == <<Arg("dyndata-id")>> IN
  Row("add", cli_add_dyndata, own \o <<MayArg("data"), MayArg("key"), MayArg("value")>>)
  @@ Row("del", cli_del("dyndata"), own) @@ MetaRows("dyndata", own) @@ Keys("dyndata", own)

PlacementPlan == Row("dump", cli_placement_plan_dump, <<MayArg("group-id"), MayArg("idc-id")>>)

g_meta ==
  "cluster" :> Cluster @@ "idc" :> Idc @@ "group" :> Group @@ "slavenode" :> Slavenode
  @@ "index-type" :> IndexType @@ "index-partition" :> IndexPartition @@ "index" :> Index
  @@ "service" :> Service @@ "service-instance" :> ServiceInstance @@ "command" :> Command
  @@ "job" :> Job @@ "dyndata-meta" :> DyndataMeta @@ "dyndata" :> Dyndata
  @@ "placement-plan" :> PlacementPlan
=============================================================================
