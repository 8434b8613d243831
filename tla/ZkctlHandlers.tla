--------------------------- MODULE ZkctlHandlers ---------------------------
(***************************************************************************)
(* The action implementations of zkctl.bin, each as the sequence of        *)
(* zkwrapper calls it makes.  A call that fails ends the command with      *)
(* EXIT_FAILURE, unless its name says what happens instead; a command that *)
(* has made its last call prints what it has read and ends with            *)
(* EXIT_SUCCESS.  Zkctl defines what each call does.                       *)
(***************************************************************************)
EXTENDS Sequences

\* A call: its name, the type of the object it is made on, the part of the
\* object or the type of the children it is about, and for a loop the calls made
\* for each of the objects found.
CallOn(name, type, part, body) == [call |-> name, type |-> type, part |-> part, body |-> body]

Local(name) == CallOn(name, "", "", <<>>)
On(name, type, part) == CallOn(name, type, part, <<>>)

\* manager.get_object_by_id<T>(request.object_id), or by the option of the type.
GetObject(T) == On("get_object", T, "")
GetById(T) == On("get_by_id", T, "")

\* Listings add to the objects found, which are then looped over or printed.
Objects(T) == On("objects", T, "")
Children(T, child) == On("children", T, child)
ChildrenById(T, child) == On("children_by_id", T, child)
Slavenodes == On("slavenodes", "slavenode", "")
Each(T, body) == CallOn("each", T, "", body)
PrintIds(T) == On("print_list", T, "")
-----------------------------------------------------------------------------
\* Templates over the type of object (zkctl.h).
cli_list(T) == <<Objects(T), PrintIds(T)>>
cli_add(T) == <<Local("deserialize"), On("new_object", T, ""), On("add_object", T, ""), On("set_all", T, "meta")>>
cli_del(T) == <<GetObject(T), On("delete_object", T, "")>>

\* Those on the meta data and those on a state differ in the part only.
cli_add_meta_attr(T) == <<GetObject(T), On("add_attr", T, "meta")>>
cli_del_meta_attr(T) == <<GetObject(T), On("del_attr", T, "meta")>>
cli_set_meta_attr(T) == <<GetObject(T), On("set_attr", T, "meta")>>
cli_get_meta_attr(T) == <<GetObject(T), On("get_attr", T, "meta")>>
cli_set_meta_all(T) == <<GetObject(T), Local("deserialize"), On("set_all", T, "meta")>>
cli_get_meta_all(T) == <<GetObject(T), On("get_all", T, "meta")>>
cli_get_meta_keys(T) == <<GetObject(T), On("get_keys", T, "meta")>>

cli_create_semaphore(T) == <<GetObject(T), On("add_attr", T, "semaphore")>>
cli_destroy_semaphore(T) == <<GetObject(T), On("del_attr", T, "semaphore")>>
cli_list_semaphore(T) == <<GetObject(T), On("get_keys", T, "semaphore")>>
cli_list_semaphore_holder(T) == <<GetObject(T), On("get_holders", T, "semaphore")>>
cli_set_semaphore_resource_num(T) == <<GetObject(T), On("set_attr", T, "semaphore")>>
cli_get_semaphore_resource_num(T) == <<GetObject(T), On("get_attr", T, "semaphore")>>

cli_state_add_attr(T, state) == <<GetObject(T), On("add_attr", T, state)>>
cli_state_del_attr(T, state) == <<GetObject(T), On("del_attr", T, state)>>
cli_state_get_attr(T, state) == <<GetObject(T), On("get_attr", T, state)>>
cli_state_set_attr(T, state) == <<GetObject(T), On("set_attr", T, state)>>
cli_state_set_all(T, state) == <<GetObject(T), Local("deserialize"), On("set_all", T, state)>>
cli_state_get_all(T, state) == <<GetObject(T), On("get_all", T, state)>>
-----------------------------------------------------------------------------
\* Of single types (zkctl.cpp).
cli_cluster_repair == <<Local("check_nodes")>>
cli_cluster_destroy == <<Local("clear")>>
cli_slavenode_list == <<Slavenodes, PrintIds("slavenode")>>
cli_slavenode_list_service_instance ==
  <<GetById("slavenode"), Children("slavenode", "service-instance"), PrintIds("service-instance")>>
cli_index_type_list_partition ==
  <<ChildrenById("index-type", "index-partition"), PrintIds("index-partition")>>
cli_index_partition_list_index == <<ChildrenById("index-partition", "index"), PrintIds("index")>>
cli_service_list_service_instance ==
  <<GetById("service"), Children("service", "service-instance"), PrintIds("service-instance")>>
cli_list_dyndata ==
  <<GetById("dyndata-meta"), Children("dyndata-meta", "dyndata"), PrintIds("dyndata")>>

\* "data_or_parent" puts the two alternatives in its place.
cli_add_dyndata ==
  <<On("new_object", "dyndata", ""), Local("data_or_parent"), On("add_object", "dyndata", ""),
    On("set_all", "dyndata", "meta")>>
ParentsData == <<On("get_parent", "dyndata-meta", ""), On("take_all", "dyndata-meta", "meta")>>

\* Fails for no reason: any error of the call is printed as "invalid".
cli_service_instance_is_valid == <<On("is_valid", "service-instance", "")>>

\* If the default planned state cannot be read, the instance goes without one.
cli_add_service_instance ==
  <<GetById("service"), GetById("slavenode"), Local("deserialize"),
    On("new_service_instance", "service", ""), On("add_object", "service-instance", ""),
    On("set_all", "service-instance", "meta"),
    On("clone_planned_state", "service", "default-planned-state"), Local("print_instance")>>
PlannedState == <<On("set_all", "service-instance", "planned-state")>>

get_all_service_instance ==
  <<Objects("service"), Each("service", <<Children("service", "service-instance")>>)>>

\* "all_or_of_slavenode" puts one of the two in its place.
cli_service_instance_list == <<Local("all_or_of_slavenode"), PrintIds("service-instance")>>

cli_service_instance_dump ==
  get_all_service_instance
  \o <<Each("service-instance", <<On("get_all", "service-instance", "meta"),
                                  On("get_all", "service-instance", "planned-state"),
                                  On("get_all", "service-instance", "current-state")>>)>>

\* Reads the state, without which the instance is skipped, and the port.
get_instance_attrs ==
  <<On("get_state", "service-instance", "meta"), On("get_port", "service-instance", "current-state")>>

get_index_partitions ==
  <<Objects("index-type"),
    Each("index-type",
         <<Children("index-type", "index-partition"),
           Each("index-partition", <<On("get_all", "index-partition", "meta")>>)>>)>>

cli_placement_plan_dump ==
  get_index_partitions
  \o <<Slavenodes,
       Each("slavenode",
            <<On("get_all", "slavenode", "meta"), Children("slavenode", "service-instance"),
              Each("service-instance", get_instance_attrs)>>)>>
-----------------------------------------------------------------------------
\* Of type command.
find_command == <<GetById("service-instance"), On("get_command", "command", "")>>

command_generateid == <<Local("generateid")>>
command_add ==
  <<GetById("service-instance"), Local("deserialize"), On("new_command", "command", ""),
    On("set_all", "command", "meta")>>
command_del == find_command \o <<On("delete_object", "command", "")>>
command_list ==
  <<GetById("service-instance"), Children("service-instance", "command"), PrintIds("command")>>
command_set_meta_attr == find_command \o <<On("set_attr", "command", "meta")>>
\* Prints the value and returns EXIT_FAILURE.
command_get_meta_attr == find_command \o <<On("get_attr", "command", "meta"), Local("return_failure")>>
command_add_meta_attr == find_command \o <<On("add_attr", "command", "meta")>>
command_del_meta_attr == find_command \o <<On("del_attr", "command", "meta")>>
command_set_meta_all == find_command \o <<Local("deserialize"), On("set_all", "command", "meta")>>
command_get_meta_all == find_command \o <<On("get_all", "command", "meta")>>
=============================================================================
