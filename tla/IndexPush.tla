----------------------------- MODULE IndexPush -----------------------------
(***************************************************************************)
(* index_push: registers an index, deploys it as the future index of the   *)
(* instances of its partition, or switches them to it.  Every call of      *)
(* zkctl.bin is a command line that Zkctl parses and carries out.          *)
(***************************************************************************)
EXTENDS Zkctl, Integers

VARIABLE script  \* client |-> the index_push that calls zkctl.bin as this client

\* A push: the action, and the index type, partition number and timestamp to
\* register, or the index to deploy or to switch to.
Push(action, index_type, partition_no, timestamp, index_id) ==
  [action |-> action, index_type |-> index_type, partition_no |-> partition_no,
   timestamp |-> timestamp, index_id |-> index_id]

NoPush == Push("none", "", "", "", "")

\* pc: the command that runs or is run next; read: what the commands printed.
NotPushing ==
  [push |-> NoPush, pc |-> "idle", read |-> [v \in {} |-> {}], todo |-> {}, instance |-> "",
   HAS_FAILURE |-> 0, exit |-> ""]

PushInit == script = [c \in Clients |-> NotPushing]

Pushing(c) == script[c].pc # "idle"
-----------------------------------------------------------------------------
\* What a command printed; nothing is the empty string.
Text(s, v) == IF v \in DOMAIN s.read /\ s.read[v] # {} THEN CHOOSE t \in s.read[v] : TRUE ELSE ""

\* Bash arithmetic, over the partition numbers.
Number(text) == CHOOSE n \in 0..9 : ToString(n) = text

\* The partition is the counter's or, of a full index, the one given.
Incremental(s) == Text(s, "deployment_policy") = "incremental"
PartitionId(s) ==
  s.push.index_type \o "_"
  \o IF Incremental(s) THEN Text(s, "deployment_next_partition") ELSE s.push.partition_no
IndexId(s) ==
  IF s.push.action = "register" THEN PartitionId(s) \o "_" \o s.push.timestamp ELSE s.push.index_id

\* INDEX_META as JSON text, and the dictionary it stands for.
IndexMeta(partition, timestamp) == "index of " \o partition \o " at " \o timestamp
IndexDict(partition, timestamp) ==
  "timestamp" :> timestamp @@ "version" :> "v" \o timestamp @@ "hdfs_path" :> "hdfs " \o timestamp
  @@ "index_partition_id" :> partition

Get(type, id, key) ==
  Line(type, "get-meta-attr", <<<<type \o "-id", id>>, <<"key", key>>>>)
KV(key, value) == <<<<"key", key>>, <<"value", value>>>>
SetPlanned(s, pairs) ==
  Line("service-instance", "set-planned-state-attr", <<<<"service-instance-id", s.instance>>>> \o pairs)
GetPlanned(s, key) ==
  Line("service-instance", "get-planned-state-attr",
       <<<<"service-instance-id", s.instance>>, <<"key", key>>>>)

\* --key=future_... --value=..., if the backup was read.
Backup(s, v, future) == IF v \in DOMAIN s.read THEN KV(future, Text(s, v)) ELSE <<>>

TypeReads == {"deployment_policy", "deployment_next_partition", "partition_count"}
IndexReads == {"timestamp", "version", "hdfs_path", "index_partition_id"}
DeploySets == "future_timestamp" :> "timestamp" @@ "future_index_version" :> "version"
              @@ "future_location" :> "hdfs_path"
BackupReads == {"online_timestamp", "online_index_version"}

\* Mutant: the last partition is left out.
NextPartition_short(s) ==
  ToString((Number(Text(s, "deployment_next_partition")) + 1) % (Number(Text(s, "partition_count")) - 1))

NextPartition(s) ==
  ToString((Number(Text(s, "deployment_next_partition")) + 1) % Number(Text(s, "partition_count")))

CommandOf(s) ==
  CASE s.pc \in TypeReads -> Get("index-type", s.push.index_type, s.pc)
    [] s.pc \in IndexReads -> Get("index", s.push.index_id, s.pc)
    [] s.pc = "index add" ->
         Line("index", "add", <<<<"index-id", IndexId(s)>>,
                                <<"data", IndexMeta(PartitionId(s), s.push.timestamp)>>>>)
    [] s.pc = "set counter" ->
         Line("index-type", "set-meta-attr",
              <<<<"index-type-id", s.push.index_type>>>> \o KV("deployment_next_partition", NextPartition(s)))
    [] s.pc = "list" ->
         Line("service", "list-service-instance",
              <<<<"service-id", "bs_" \o Text(s, "index_partition_id")>>>>)
    [] s.pc \in DOMAIN DeploySets -> SetPlanned(s, KV(s.pc, Text(s, DeploySets[s.pc])))
    [] s.pc \in BackupReads -> GetPlanned(s, s.pc)
    \* sic: set-planned-state-attr, without a value
    [] s.pc = "online_location" -> SetPlanned(s, <<<<"key", "online_location">>>>)
    [] s.pc = "set online" ->
         SetPlanned(s, KV("online_timestamp", Text(s, "timestamp"))
                       \o Backup(s, "online_timestamp", "future_timestamp")
                       \o KV("online_index_version", Text(s, "version"))
                       \o Backup(s, "online_index_version", "future_index_version")
                       \o KV("online_location", Text(s, "hdfs_path"))
                       \o Backup(s, "online_location", "future_location"))
-----------------------------------------------------------------------------
\* Commands in the order of the script; "each" is the loop over instances.
RegisterIncremental == <<"deployment_policy", "deployment_next_partition", "index add",
                         "partition_count", "set counter", "end">>
RegisterFull == <<"deployment_policy", "index add", "end">>
Prepare == <<"timestamp", "version", "hdfs_path", "index_partition_id", "list", "each">>
Deploy == <<"future_timestamp", "future_index_version", "future_location", "each">>
Switch == <<"online_timestamp", "online_index_version", "online_location", "set online", "each">>

After(seq, pc) == seq[(CHOOSE i \in DOMAIN seq : seq[i] = pc) + 1]
BodyOf(push) == IF push.action = "deploy" THEN Deploy ELSE Switch
NextPc(s) ==
  After(CASE s.push.action = "register" -> IF Incremental(s) THEN RegisterIncremental ELSE RegisterFull
          [] s.pc \in {Prepare[i] : i \in 1..5} /\ s.push.action # "register" -> Prepare
          [] OTHER -> BodyOf(s.push), s.pc)

Begin(c, push) ==
  /\ ~Pushing(c) /\ Idle(c)
  /\ script' = [script EXCEPT ![c] = [NotPushing EXCEPT !.push = push,
                  !.pc = IF push.action = "register" THEN "deployment_policy" ELSE Prepare[1]]]
  /\ cli' = [cli EXCEPT ![c] = NotRun] /\ UNCHANGED <<objects, faults>>

Exit(c, s, status) ==
  script' = [script EXCEPT ![c] = [NotPushing EXCEPT !.push = s.push, !.exit = status]]

invoke(c) ==
  /\ Pushing(c) /\ script[c].pc \notin {"each", "end"} /\ cli[c].pc = "idle"
  /\ main(c, CommandOf(script[c])) /\ UNCHANGED script

\* `[ $? -ne 0 ] && ... return 1`, or in the loops over instances HAS_FAILURE=1
\* && continue; a backup that cannot be read is left out, and the status of
\* reading index_partition_id is not looked at.
Unchecked == {"index_partition_id", "online_timestamp", "online_index_version", "online_location"}
InLoop == DOMAIN DeploySets \cup {"set online"}

Remember(c, s) == [s EXCEPT !.read = (s.pc :> cli[c].out) @@ @]
Proceed(c, s) == script' = [script EXCEPT ![c] = [s EXCEPT !.pc = NextPc(s)]]

\* Mutant: the loop forgets that a set has failed.
returned_forgets(c) ==
  LET s == script[c] IN
  /\ Pushing(c) /\ cli[c].pc = "done"
  /\ CASE cli[c].exit = "success" -> Proceed(c, Remember(c, s))
       [] s.pc \in Unchecked \cup InLoop -> Proceed(c, s)
       [] OTHER -> Exit(c, s, "failure")
  /\ cli' = [cli EXCEPT ![c] = NotRun] /\ UNCHANGED <<objects, faults>>

\* A deployment policy that is neither incremental nor full ends the script.
returned(c) ==
  LET s == script[c]
      ok == cli[c].exit = "success"
      invalid == s.pc = "deployment_policy" /\ cli[c].out \cap {"incremental", "full"} = {}
  IN /\ Pushing(c) /\ cli[c].pc = "done"
     /\ CASE ok /\ ~invalid -> Proceed(c, Remember(c, s))
          [] ~ok /\ s.pc \in Unchecked -> Proceed(c, s)
          [] ~ok /\ s.pc \in InLoop -> script' = [script EXCEPT ![c].pc = "each", ![c].HAS_FAILURE = 1]
          [] OTHER -> Exit(c, s, "failure")
     /\ cli' = [cli EXCEPT ![c] = NotRun] /\ UNCHANGED <<objects, faults>>

\* `for INSTANCE in ${SERVICE_INSTANCE_LIST}`; without instances it is a success.
loop(c) ==
  LET s == script[c]
      todo == IF "list" \in DOMAIN s.read THEN s.read["list"] ELSE s.todo
  IN /\ s.pc = "each"
     /\ IF todo = {} THEN Exit(c, s, IF s.HAS_FAILURE = 0 THEN "success" ELSE "failure")
        ELSE \E i \in todo :
               script' = [script EXCEPT ![c].instance = i, ![c].pc = BodyOf(s.push)[1],
                            ![c].todo = todo \ {i},
                            ![c].read = [v \in DOMAIN @ \cap IndexReads |-> @[v]]]
     /\ UNCHANGED <<objects, cli, faults>>

finish(c) ==
  script[c].pc = "end" /\ Exit(c, script[c], "success") /\ UNCHANGED <<objects, cli, faults>>

\* The script; the zkctl.bin that it runs goes on by itself, or is killed as well.
KillPush(c) ==
  /\ "kill" \in faults /\ Pushing(c)
  /\ Exit(c, script[c], "killed")
  /\ UNCHANGED cli \/ cli' = [cli EXCEPT ![c] = NotRun]
  /\ UNCHANGED <<objects, faults>>

index_push(c) == invoke(c) \/ returned(c) \/ loop(c) \/ finish(c)
=============================================================================
