------------------------------ MODULE MCZkctl ------------------------------
(* Instances of ZkctlSystem for TLC. *)
EXTENDS ZkctlSystem, Integers

CONSTANTS c1, c2

Meta(dict) == "meta" :> dict
Thing(type, id, parts) == <<type, id>> :> Object(parts, "")
Bare(type, id) == Thing(type, id, Empty)
Instance(id, node, parts) == <<"service-instance", id>> :> Object(parts, node)
State(s) == "state" :> s
Planned(when, ts) ==
  when \o "_timestamp" :> ts @@ when \o "_index_version" :> "v" \o ts @@ when \o "_location" :> "hdfs " \o ts
IndexOf(partition, ts) ==
  Thing("index", partition \o "_" \o ts, Meta(IndexDict(partition, ts)))

Incrementally == Meta("deployment_policy" :> "incremental" @@ "deployment_next_partition" :> "0"
                      @@ "partition_count" :> "2")

\* One group, two slave nodes, an index type of two partitions, one service.
Cluster0 ==
  Bare("cluster", "") @@ Bare("idc", "i1") @@ Bare("group", "g1")
  @@ Thing("slavenode", "n1", Meta("idc" :> "i1" @@ "group" :> "g1" @@ "k" :> "1"))
  @@ Bare("slavenode", "n2")
  @@ Thing("index-type", "w", Incrementally)
  @@ Bare("index-partition", "w_0") @@ Bare("index-partition", "w_1")
  @@ Thing("service", "bs_w_0", "default-planned-state" :> Planned("online", "t0"))

\* ... with an object of every type, for the command lines.
Cluster1 ==
  Cluster0
  @@ IndexOf("w_0", "t0")
  @@ Instance("bs_w_0-7", "n1", Meta(State("RUNNING")) @@ "semaphore" :> ("k" :> "1"))
  @@ Instance("bs_w_0-8", "n1", Empty)
  @@ Bare("command", "bs_w_0-7.cmd1")
  @@ Thing("job", "j1", Meta("k" :> "1")) @@ Thing("dyndata-meta", "m1", Meta("k" :> "1"))
  @@ Bare("dyndata", "m1_d1")

\* ... with instances, one of which is not of a BS.
Cluster2 ==
  Cluster0 @@ IndexOf("w_0", "t0") @@ Bare("service", "da")
  @@ Instance("bs_w_0-7", "n1", Meta(State("RUNNING"))) @@ Instance("bs_w_0-8", "n2", Meta(State("NEW")))
  @@ Instance("bs_w_0-9", "n1", Meta(State("NEW"))) @@ Instance("da-1", "n1", Meta(State("NEW")))

\* ... with two indexes, one online and one future.
Online == "planned-state" :> (Planned("online", "t1") @@ Planned("future", "t2"))
Cluster3 ==
  Cluster0 @@ IndexOf("w_0", "t1") @@ IndexOf("w_0", "t2") @@ Instance("bs_w_0-7", "n1", Online)
Cluster4 == Cluster3 @@ Instance("bs_w_0-8", "n2", Online)

Texts == "{state}" :> State("NEW") @@ "{k}" :> ("k" :> "0") @@ "{}" :> Empty
         @@ [t \in {IndexMeta(p, ts) : p \in {"w_0", "w_1"}, ts \in {"t1", "t2", "t3"}} |->
               CHOOSE d \in {IndexDict(p, ts) : p \in {"w_0", "w_1"}, ts \in {"t1", "t2", "t3"}} :
                 t = IndexMeta(d["index_partition_id"], d["timestamp"])]
-----------------------------------------------------------------------------
\* Command lines: every action of every type with every selection of its
\* options in every order, names and values as they are known to the cluster;
\* in the order of the table, unknown values as well; and options abbreviated,
\* unknown, repeated or with an argument too few or too many.
ExistingId ==
  "idc-id" :> "i1" @@ "group-id" :> "g1" @@ "slavenode-id" :> "n1" @@ "index-type-id" :> "w"
  @@ "index-partition-id" :> "w_0" @@ "index-id" :> "w_0_t0" @@ "service-id" :> "bs_w_0"
  @@ "service-instance-id" :> "bs_w_0-7" @@ "command-id" :> "cmd1" @@ "job-id" :> "j1"
  @@ "dyndata-meta-id" :> "m1" @@ "dyndata-id" :> "m1_d1"
  @@ "data" :> "{k}" @@ "key" :> "k" @@ "value" :> "2" @@ "resource-num" :> "3"
OtherId ==
  "idc-id" :> "i2" @@ "group-id" :> "g2" @@ "slavenode-id" :> "n3" @@ "index-type-id" :> "x"
  @@ "index-partition-id" :> "w_2" @@ "index-id" :> "w_1_t9" @@ "service-id" :> "da"
  @@ "service-instance-id" :> "bs_w_0-9" @@ "command-id" :> "cmd2" @@ "job-id" :> "j2"
  @@ "dyndata-meta-id" :> "m2" @@ "dyndata-id" :> "m1_d2"
  @@ "data" :> "not json" @@ "key" :> "q" @@ "value" :> "" @@ "resource-num" :> "many"

Given(o, ids) == IF o.has_arg THEN <<o.name, ids[o.name]>> ELSE <<o.name>>
Orders(S) == {f \in UNION {[1..n -> S] : n \in 0..Cardinality(S)} :
                \A i, j \in DOMAIN f : f[i] = f[j] => i = j}

Ordered(options) ==
  {[i \in DOMAIN f |-> Given(options[f[i]], ExistingId)] : f \in Orders(DOMAIN options)}
Valued(options) ==
  {[i \in DOMAIN options |-> Given(options[i], IF i \in other THEN OtherId ELSE ExistingId)] :
     other \in SUBSET DOMAIN options}

OddLines ==
  {Line("idc", "add", <<<<"idc", "i2">>, <<"d", "{k}">>>>),
   Line("service-instance", "add", <<<<"s", "bs_w_0">>, <<"slave", "n1">>, <<"data", "{k}">>>>),
   Line("service-instance", "add", <<<<"serv", "bs_w_0">>, <<"slave", "n1">>, <<"data", "{k}">>>>),
   Line("idc", "get-meta-all", <<<<"idc-id", "i1">>, <<"pretty", "1">>>>),
   Line("idc", "del", <<<<"idc-id">>>>),
   Line("idc", "del", <<<<"idc-id", "i1">>, <<"group-id", "g1">>>>),
   Line("idc", "del", <<<<"idc-id", "i2">>, <<"idc-id", "i1">>>>),
   Line("job", "set-meta-attr", <<<<"job-id", "j1">>>> \o KV("k", "2") \o KV("q", "3")),
   Line("job", "add-meta-attr", <<<<"job-id", "j1">>>> \o KV("p", "2") \o KV("q", "3")),
   Line("job", "add", <<<<"job-id", "j2">>, <<"data", "{}">>>>),
   Line("placement-plan", "apply", <<>>), Line("node", "list", <<>>)}

TableLines ==
  UNION {UNION {{Line(type, action, opts) :
                   opts \in LET options == g_meta[type][action].options
                            IN Ordered(options) \cup Valued(options)} :
                action \in DOMAIN g_meta[type]} : type \in DOMAIN g_meta}
-----------------------------------------------------------------------------
\* Commands beside each other.
AddInstance(node) ==
  Line("service-instance", "add", <<<<"service-id", "bs_w_0">>, <<"slavenode-id", node>>, <<"data", "{state}">>>>)
DelInstance(id) == Line("service-instance", "del", <<<<"service-instance-id", id>>>>)
AddJob == Line("job", "add", <<<<"job-id", "j9">>, <<"data", "{k}">>>>)
DelNode(id) == Line("slavenode", "del", <<<<"slavenode-id", id>>>>)
DelService == Line("service", "del", <<<<"service-id", "da">>>>)
DumpPlan == Line("placement-plan", "dump", <<>>)
DumpGroup == Line("placement-plan", "dump", <<<<"group-id", "g1">>>>)
DumpInstances == Line("service-instance", "dump", <<>>)
ListInstances == Line("service-instance", "list", <<>>)

Changes == {AddInstance("n2"), DelInstance("bs_w_0-8"), DelInstance("da-1"),
            DelNode("n2"), DelService, AddJob}
Dumps == {DumpPlan, DumpGroup, DumpInstances, ListInstances}
-----------------------------------------------------------------------------
For(a, b) == c1 :> a @@ c2 :> b
Scenario(cluster, wrong, times, lines, pushes) ==
  [objects |-> cluster, faults |-> wrong, times |-> times, lines |-> lines, pushes |-> pushes]

Register(ts) == Push("register", "w", "", ts, "")
Registers == {Register(ts) : ts \in {"t1", "t2", "t3"}}
Deploys == {Push("deploy", "", "", "", i) : i \in {"w_0_t1", "w_0_t2"}}
Switches == {Push("switch", "", "", "", i) : i \in {"w_0_t1", "w_0_t2"}}

TheScenarios ==
  [table |-> Scenario(Cluster1, {}, For(1, 0), For(TableLines \cup OddLines, {}), For({}, {})),
   beside |-> Scenario(Cluster2, {}, For(2, 1), For({AddInstance("n2"), DelInstance("bs_w_0-8"), DelNode("n2")},
                                                  {DumpPlan, ListInstances}), For({}, {})),
   killed |-> Scenario(Cluster2, {"kill"}, For(1, 1), For(Changes, Dumps \cup {AddJob}), For({}, {})),
   failing |-> Scenario(Cluster2, {"fail"}, For(1, 1), For(Changes, Dumps \ {DumpGroup}), For({}, {})),
   registering |-> Scenario(Cluster0, {}, For(3, 0), For({}, {}), For(Registers, {})),
   racing |-> Scenario(Cluster0, {"fail", "kill"}, For(1, 1), For({}, {}),
                      For({Register("t1")}, {Register("t1"), Register("t2")})),
   deploying |-> Scenario(Cluster4, {"fail", "kill"}, For(2, 0), For({}, {}), For(Deploys, {})),
   failing_switch |-> Scenario(Cluster4, {"fail"}, For(2, 0), For({}, {}), For(Deploys \cup Switches, {})),
   switching |-> Scenario(Cluster3, {"kill"}, For(1, 1), For({}, {}), For(Switches, Switches \cup Deploys))]

SwitchScenario == [switch |-> Scenario(Cluster4, {}, For(1, 0), For({}, {}), For(Switches, {}))]
=============================================================================
