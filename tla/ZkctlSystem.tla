---------------------------- MODULE ZkctlSystem ----------------------------
(***************************************************************************)
(* Commands and index pushes side by side on one cluster.                  *)
(***************************************************************************)
EXTENDS IndexPush

\* A scenario: the cluster to begin with, what may go wrong, and for every
\* client the command lines and the pushes it may run, how often in all
\* (bound).  Under zksh -w commands and pushes run one after the other: that
\* is one client that runs them all.
CONSTANT Scenarios  \* name |-> scenario

VARIABLES
  scenario,  \* the name of this behaviour's scenario
  left       \* client |-> commands and pushes it may still run

vars == <<objects, cli, faults, script, scenario, left>>

ASSUME ScenarioAssumption ==
  \A name \in DOMAIN Scenarios :
    /\ Scenarios[name].faults \subseteq {"fail", "kill"}
    /\ \A c \in Clients : Scenarios[name].times[c] \in Nat
    /\ \A c \in Clients : \A line \in Scenarios[name].lines[c] : line.opts \in Seq(Seq(STRING))
    /\ \A k \in DOMAIN Scenarios[name].objects :
         LET object == Scenarios[name].objects[k] IN
         k = <<k[1], k[2]>> /\ DOMAIN object = {"parts", "node", "next"} /\ DOMAIN object.parts = Parts

Init ==
  /\ scenario \in DOMAIN Scenarios
  /\ objects = Scenarios[scenario].objects /\ faults = Scenarios[scenario].faults
  /\ left = Scenarios[scenario].times
  /\ ZkctlInit /\ PushInit

Spend(c) == left[c] > 0 /\ left' = [left EXCEPT ![c] = @ - 1] /\ UNCHANGED scenario

BeginCommand(c) ==
  /\ Spend(c) /\ ~Pushing(c)
  /\ \E line \in Scenarios[scenario].lines[c] : main(c, line)
  /\ UNCHANGED script

BeginPush(c) == Spend(c) /\ \E push \in Scenarios[scenario].pushes[c] : Begin(c, push)

Next ==
  \E c \in Clients :
    \/ BeginCommand(c)
    \/ cli_invoke(c) /\ UNCHANGED <<script, scenario, left>>
    \/ BeginPush(c)
    \/ index_push(c) /\ UNCHANGED <<scenario, left>>
    \/ Kill(c) /\ UNCHANGED <<script, scenario, left>>
    \/ KillPush(c) /\ UNCHANGED <<scenario, left>>

Spec == Init /\ [][Next]_vars

Alone(c) == \A d \in Clients \ {c} : Scenarios[scenario].times[d] = 0
-----------------------------------------------------------------------------
IsDict(d) == \A k \in DOMAIN d : d[k] \in STRING

TypeOK ==
  /\ \A k \in DOMAIN objects :
       /\ k[1] \in DOMAIN g_meta \ {"placement-plan"}
       /\ objects[k].next \in Nat \ {0}
       /\ DOMAIN objects[k].parts = Parts /\ \A p \in Parts : IsDict(objects[k].parts[p])
       /\ k[1] = "service-instance" <=> objects[k].node # ""
  /\ \A c \in Clients :
       /\ cli[c].pc \in {"idle", "running", "done"}
       /\ cli[c].pc = "running" <=> cli[c].calls # <<>>
       /\ cli[c].exit \in {"", "success", "failure", "killed"}
       /\ script[c].exit \in {"", "success", "failure", "killed"}

\* What a command is carried out on is what the option of its own type names,
\* however the options are ordered or abbreviated and although any option that
\* begins with the type is taken (cli_process_option).
NamesItsObject ==
  \A c \in Clients :
    LET own == cli[c].request.type \o "-id" IN
    Running(c) /\ own \in option2var => cli[c].request.object_id = cli[c].request.vars[own]

\* No option that g_meta lets through is unknown to cli_process_option.
CodeChecked == \A c \in Clients : cli[c].request.error # "pls check code"

\* An add that is given meta data and reports success leaves no object without
\* any, though it creates the object first and another call sets them.
AddedMeansComplete ==
  [][\A c \in Clients :
       LET T == cli[c].request.type IN
       /\ Running(c) /\ cli[c].request.action = "add"
       /\ Var(c, "data") \in DOMAIN Json /\ Json[Var(c, "data")] # Empty
       /\ cli'[c].pc = "done" /\ cli'[c].exit = "success"
       => LET key == <<T, Obj(c, T)>> IN
          key \in DOMAIN objects' => objects'[key].parts["meta"] # Empty]_vars

\* A successful placement-plan dump lists every BS instance that had a state
\* before it began and has one still, and each under its own slave node.
DumpWhole ==
  \A c \in Clients :
    /\ cli[c].pc = "done" /\ cli[c].exit = "success" /\ cli[c].request.type = "placement-plan"
    /\ \A d \in {"idc", "group"} : ~Restricts(c, d)
    => /\ \A id \in cli[c].before \cap Stated :
            <<objects["service-instance", id].node, id>> \in cli[c].placed
       /\ \A place \in cli[c].placed :
            Exists("service-instance", place[2]) => objects["service-instance", place[2]].node = place[1]

\* ... unless calls fail, whatever the others do meanwhile.
DumpComplete == "fail" \notin faults => DumpWhole
-----------------------------------------------------------------------------
\* The indexes of an incremental type are spread evenly over its partitions,
\* if the pushes run one after the other and nothing fails.
RoundRobin ==
  \A c \in Clients, type \in All("index-type") :
    Alone(c) /\ ~Pushing(c) /\ faults = {}
    /\ Has("index-type", type, "meta", {"deployment_policy"})
    /\ Dict("index-type", type, "meta")["deployment_policy"] = "incremental" =>
      LET partitions == ChildrenOf("index-type", type, "index-partition")
          count(p) == Cardinality(ChildrenOf(p[1], p[2], "index"))
      IN \A p, q \in partitions : count(p) <= count(q) + 1

\* The location, timestamp and version planned are those of one index.
Attr(id, key) ==
  IF Has("service-instance", id, "planned-state", {key})
  THEN Dict("service-instance", id, "planned-state")[key] ELSE ""
Triple(id, when) == [timestamp |-> Attr(id, when \o "_timestamp"), version |-> Attr(id, when \o "_index_version"),
                     hdfs_path |-> Attr(id, when \o "_location")]
NoTriple == [timestamp |-> "", version |-> "", hdfs_path |-> ""]
TripleOf(index) == [k \in DOMAIN NoTriple |-> Dict("index", index, "meta")[k]]
Indexes == {i \in All("index") : Has("index", i, "meta", DOMAIN NoTriple)}
Whole(triple) == triple \in {TripleOf(i) : i \in Indexes} \cup {NoTriple}

\* No instance is ever told to serve a mixture of two indexes: switch sets the
\* three attributes in one call.
OnlineWhole == \A id \in All("service-instance") : Whole(Triple(id, "online"))

Finished(c, action) ==
  Alone(c) /\ ~Pushing(c) /\ script[c].exit = "success" /\ script[c].push.action = action

InstancesFor(index) ==
  {id \in All("service-instance") :
     BelongsTo(id, "bs_" \o Dict("index", index, "meta")["index_partition_id"])}

\* A deploy that reports success has told every instance of the partition the
\* whole of the index, whatever failed or was killed in pushes before it.
DeployTakes ==
  \A c \in Clients :
    Finished(c, "deploy") =>
      \A id \in InstancesFor(script[c].push.index_id) :
        Triple(id, "future") = TripleOf(script[c].push.index_id)

\* A switch that reports success keeps what was online as the future index.
SwitchBacksUp ==
  \A c \in Clients :
    Finished(c, "switch") => \A id \in InstancesFor(script[c].push.index_id) : Whole(Triple(id, "future"))
=============================================================================
