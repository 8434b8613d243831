------------------------------- MODULE Zkctl -------------------------------
(***************************************************************************)
(* Invocations of zkctl.bin on one cluster: each parses its command line,  *)
(* connects and makes the calls of the action's implementation one by one, *)
(* between which others run.  zkwrapper is external: what its calls do is  *)
(* what zkctl.bin's messages and scripts take them to do.                  *)
(***************************************************************************)
EXTENDS ZkctlOptions

CONSTANTS
  Clients,  \* invocations that may run side by side
  Json      \* the texts that are JSON dictionaries, text |-> dictionary

\* The empty text is not JSON: without data the option is "".
ASSUME JsonAssumption ==
  /\ "" \notin DOMAIN Json
  /\ \A text \in DOMAIN Json : Json[text] \in [DOMAIN Json[text] -> STRING]

VARIABLES
  objects,  \* the cluster: <<type, id>> |-> object
  cli,      \* client |-> its invocation
  faults    \* what may go wrong: "fail", a call fails; "kill", a client is killed

Parts == {"meta", "semaphore", "default-planned-state", "planned-state", "current-state"}
Empty == [k \in {} |-> ""]

\* An object: its parts, a service instance's slave node, and the number that
\* a service's next instance gets.
Object(parts, node) == [parts |-> parts @@ [p \in Parts |-> Empty], node |-> node, next |-> 1]

Exists(type, id) == <<type, id>> \in DOMAIN objects
Dict(type, id, part) == objects[<<type, id>>].parts[part]
Has(type, id, part, keys) == Exists(type, id) /\ keys \subseteq DOMAIN Dict(type, id, part)
With(type, id, part, dict) == [objects EXCEPT ![<<type, id>>].parts[part] = dict]

ParentType == "index-partition" :> "index-type" @@ "index" :> "index-partition"
  @@ "service-instance" :> "service" @@ "dyndata" :> "dyndata-meta" @@ "command" :> "service-instance"

\* wdnb_0_t1 is of wdnb_0, bs_wdnb_0-1 of bs_wdnb_0.
BelongsTo(id, parent) == \E sep \in {"_", "-", "."} : IsPrefix(parent \o sep, id)
Parents(type, id) == {k \in DOMAIN objects : k[1] = ParentType[type] /\ BelongsTo(id, k[2])}
ChildrenOf(type, id, child) ==
  {k \in DOMAIN objects : k[1] = child /\ IF type = "slavenode" THEN objects[k].node = id
                                          ELSE BelongsTo(k[2], id)}
HasChildren(type, id) ==
  \E child \in {t \in DOMAIN ParentType : ParentType[t] = type}
               \cup (IF type = "slavenode" THEN {"service-instance"} ELSE {}) :
    ChildrenOf(type, id, child) # {}
Ids(keys) == {k[2] : k \in keys}
All(type) == Ids({k \in DOMAIN objects : k[1] = type})

\* BS instances that have a state, of which the planner wants to know.
Stated == {id \in All("service-instance") :
             IsPrefix("bs_", id) /\ Has("service-instance", id, "meta", {"state"})}
-----------------------------------------------------------------------------
\* An invocation: its request, the calls left, the objects got by type, those
\* found, the dictionary read; what it prints, the <<slave node, instance>> it
\* dumps and how it ends; and, for the properties, Stated when it began.
NotRun ==
  [pc |-> "idle", request |-> cli_request(Line("", "", <<>>)), calls |-> <<>>, obj |-> Empty,
   found |-> [t \in {} |-> {}], data |-> Empty, out |-> {}, placed |-> {}, exit |-> "", before |-> {}]

ZkctlInit == cli = [c \in Clients |-> NotRun]

Running(c) == cli[c].pc = "running"
Idle(c) == ~Running(c)

Done(r, exit) == [NotRun EXCEPT !.pc = "done", !.request = r.request, !.exit = exit,
                                !.out = r.out, !.placed = r.placed, !.before = r.before]
Fail(r) == Done(r, "failure")
Become(r, calls) == IF calls = <<>> THEN Done(r, "success") ELSE [r EXCEPT !.calls = calls]
Continue(r) == Become(r, Tail(r.calls))
Instead(r, calls) == Become(r, calls \o Tail(r.calls))

At(c, name) == Running(c) /\ Head(cli[c].calls).call = name
Step(c, r) == cli' = [cli EXCEPT ![c] = r] /\ UNCHANGED faults

\* A call of zkwrapper that can succeed does, or fails, be it that it takes
\* effect and the answer is lost; one that cannot fails.
Call(c, can, store, succeeded, failed) ==
  \/ can /\ objects' = store /\ Step(c, succeeded)
  \/ /\ can => "fail" \in faults
     /\ objects' \in IF can THEN {objects, store} ELSE {objects}
     /\ Step(c, failed)

Here(c, r) == Step(c, r) /\ UNCHANGED objects

Kill(c) == "kill" \in faults /\ Running(c) /\ Here(c, Done(cli[c], "killed"))

\* Mutant: the action is not invoked.
main_does_not_invoke(c, line) ==
  LET r == [NotRun EXCEPT !.pc = "running", !.request = cli_parse_options(line), !.before = Stated] IN
  /\ Idle(c)
  /\ \/ (r.request.error # "" \/ "fail" \in faults) /\ Here(c, Fail(r))
     \/ r.request.error = "" /\ Call(c, TRUE, objects, r, Fail(r))

\* Read the configuration, which may fail, parse, connect, invoke.
main(c, line) ==
  LET request == cli_parse_options(line)
      r == [NotRun EXCEPT !.pc = "running", !.request = request, !.before = Stated]
  IN /\ Idle(c)
     /\ \/ (request.error # "" \/ "fail" \in faults) /\ Here(c, Fail(r))
        \/ /\ request.error = ""
           /\ Call(c, TRUE, objects, [r EXCEPT !.calls = g_meta[line.type][line.action].impl], Fail(r))
-----------------------------------------------------------------------------
\* The calls.  In each, r is the invocation, T the type it is about.
Type(c) == Head(cli[c].calls).type
Part(c) == Head(cli[c].calls).part
Var(c, name) == cli[c].request.vars[name]
Obj(c, type) == cli[c].obj[type]

Got(r, type, id) == [r EXCEPT !.obj = (type :> id) @@ @]

Find(c, id) ==
  Call(c, Exists(Type(c), id), objects, Continue(Got(cli[c], Type(c), id)), Fail(cli[c]))

get_object(c) == At(c, "get_object") /\ Find(c, cli[c].request.object_id)
get_by_id(c) == At(c, "get_by_id") /\ Find(c, Var(c, Type(c) \o "-id"))

\* A command is named within its instance.
CommandId(c) == Obj(c, "service-instance") \o "." \o Var(c, "command-id")
get_command(c) == At(c, "get_command") /\ Find(c, CommandId(c))

is_valid(c) ==
  /\ At(c, "is_valid")
  /\ Call(c, Exists("service-instance", Var(c, "service-instance-id")), objects,
          Continue([cli[c] EXCEPT !.out = {"valid"}]), Continue([cli[c] EXCEPT !.out = {"invalid"}]))

deserialize(c) ==
  /\ At(c, "deserialize")
  /\ Here(c, IF Var(c, "data") \in DOMAIN Json
             THEN Continue([cli[c] EXCEPT !.data = Json[Var(c, "data")]]) ELSE Fail(cli[c]))

\* In memory only; the parent of a dyndata is looked up.
new_object(c) ==
  LET id == cli[c].request.object_id IN
  /\ At(c, "new_object")
  /\ Call(c, Type(c) = "dyndata" => Parents("dyndata", id) # {}, objects,
          Continue(Got(cli[c], Type(c), id)), Fail(cli[c]))

\* Takes the next number of the service.
new_service_instance(c) ==
  LET service == Obj(c, "service")
      can == Exists("service", service)
      id == service \o "-" \o ToString(objects[<<"service", service>>].next)
  IN /\ At(c, "new_service_instance")
     /\ Call(c, can, [objects EXCEPT ![<<"service", service>>].next = @ + 1],
             Continue(Got(cli[c], "service-instance", id)), Fail(cli[c]))

\* Creates the object, without attributes; its parent must be there.
Create(c, id) ==
  LET node == IF Type(c) = "service-instance" THEN Obj(c, "slavenode") ELSE "" IN
  Call(c, ~Exists(Type(c), id) /\ (Type(c) \in DOMAIN ParentType => Parents(Type(c), id) # {}),
       <<Type(c), id>> :> Object(Empty, node) @@ objects,
       Continue(Got(cli[c], Type(c), id)), Fail(cli[c]))

add_object(c) == At(c, "add_object") /\ Create(c, Obj(c, Type(c)))
new_command(c) == At(c, "new_command") /\ Create(c, CommandId(c))

delete_object(c) ==
  LET id == Obj(c, Type(c)) IN
  /\ At(c, "delete_object")
  /\ Call(c, Exists(Type(c), id) /\ ~HasChildren(Type(c), id),
          [k \in DOMAIN objects \ {<<Type(c), id>>} |-> objects[k]], Continue(cli[c]), Fail(cli[c]))

\* What the request says of attributes: a semaphore is a key with a number.
Atoi(text) == IF text \in {ToString(n) : n \in 0..9} THEN text ELSE "0"
KeyValues(c) == IF Part(c) = "semaphore" THEN cli[c].request.key :> Atoi(Var(c, "resource-num"))
                                         ELSE cli[c].request.key_values
NamedKeys(c) == IF Part(c) = "semaphore" THEN {cli[c].request.key} ELSE cli[c].request.keys

\* A call on a part of the object: when it can, and the part afterwards.
Update(c, can, dict) ==
  Call(c, Exists(Type(c), Obj(c, Type(c))) /\ can, With(Type(c), Obj(c, Type(c)), Part(c), dict),
       Continue(cli[c]), Fail(cli[c]))
Read(c, can, succeeded) ==
  Call(c, Exists(Type(c), Obj(c, Type(c))) /\ can, objects, succeeded, Fail(cli[c]))
Attrs(c) == Dict(Type(c), Obj(c, Type(c)), Part(c))

add_attr(c) ==
  At(c, "add_attr")
  /\ Update(c, DOMAIN KeyValues(c) \cap DOMAIN Attrs(c) = {}, KeyValues(c) @@ Attrs(c))
\* Of a state the attribute need not be there: dyndata_push sets new ones.
set_attr(c) ==
  At(c, "set_attr")
  /\ Update(c, Part(c) \in {"meta", "semaphore"} => DOMAIN KeyValues(c) \subseteq DOMAIN Attrs(c),
            KeyValues(c) @@ Attrs(c))
del_attr(c) ==
  At(c, "del_attr")
  /\ Update(c, NamedKeys(c) \subseteq DOMAIN Attrs(c),
            [k \in DOMAIN Attrs(c) \ NamedKeys(c) |-> Attrs(c)[k]])

\* Mutant: the result of the call is not looked at.
set_all_unchecked(c) ==
  At(c, "set_all")
  /\ Call(c, Exists(Type(c), Obj(c, Type(c))),
          With(Type(c), Obj(c, Type(c)), Part(c), cli[c].request.key_values @@ cli[c].data),
          Continue(cli[c]), Continue(cli[c]))
set_all(c) == At(c, "set_all") /\ Update(c, TRUE, cli[c].request.key_values @@ cli[c].data)

get_attr(c) ==
  At(c, "get_attr")
  /\ Read(c, NamedKeys(c) \subseteq DOMAIN Attrs(c),
          Continue([cli[c] EXCEPT !.out = {Attrs(c)[k] : k \in NamedKeys(c)}]))
get_keys(c) == At(c, "get_keys") /\ Read(c, TRUE, Continue([cli[c] EXCEPT !.out = DOMAIN Attrs(c)]))
\* What they print is left out.
get_all(c) == At(c, "get_all") /\ Read(c, TRUE, Continue(cli[c]))
get_holders(c) ==
  At(c, "get_holders") /\ Read(c, NamedKeys(c) \subseteq DOMAIN Attrs(c), Continue(cli[c]))
take_all(c) == At(c, "take_all") /\ Read(c, TRUE, Continue([cli[c] EXCEPT !.data = Attrs(c)]))

\* The two alternatives of dyndata add.
data_or_parent(c) ==
  At(c, "data_or_parent")
  /\ Here(c, Instead(cli[c], IF Var(c, "data") # "" THEN <<Local("deserialize")>> ELSE ParentsData))
get_parent(c) ==
  LET parents == Parents("dyndata", Obj(c, "dyndata")) IN
  /\ At(c, "get_parent")
  /\ Call(c, parents # {}, objects,
          Continue(Got(cli[c], Type(c), CHOOSE id \in Ids(parents) : TRUE)), Fail(cli[c]))

\* A failure is reported on stderr only.
clone_planned_state(c) ==
  /\ At(c, "clone_planned_state")
  /\ Call(c, Exists("service", Obj(c, "service")), objects,
          Instead([cli[c] EXCEPT !.data = Attrs(c)], PlannedState), Continue(cli[c]))
print_instance(c) ==
  At(c, "print_instance") /\ Here(c, Continue([cli[c] EXCEPT !.out = {Obj(c, "service-instance")}]))

return_failure(c) == At(c, "return_failure") /\ Here(c, Fail(cli[c]))
generateid(c) == At(c, "generateid") /\ Here(c, Continue([cli[c] EXCEPT !.out = {"cmd"}]))

\* repair creates the directories that are missing, of which none is here.
check_nodes(c) == At(c, "check_nodes") /\ Call(c, TRUE, objects, Continue(cli[c]), Fail(cli[c]))
clear(c) ==
  At(c, "clear") /\ Call(c, TRUE, <<"cluster", "">> :> Object(Empty, ""), Continue(cli[c]), Fail(cli[c]))
-----------------------------------------------------------------------------
\* Listings and loops.
Found(c, type) == IF type \in DOMAIN cli[c].found THEN cli[c].found[type] ELSE {}
Listed(c, type, ids) == [cli[c] EXCEPT !.found = (type :> (Found(c, type) \cup ids)) @@ @]

List(c, can, type, ids) == Call(c, can, objects, Continue(Listed(c, type, ids)), Fail(cli[c]))

Objects_of(c) == At(c, "objects") /\ List(c, TRUE, Type(c), All(Type(c)))
children(c) ==
  LET id == Obj(c, Type(c)) IN
  At(c, "children") /\ List(c, Exists(Type(c), id), Part(c), Ids(ChildrenOf(Type(c), id, Part(c))))
children_by_id(c) ==
  LET id == Var(c, Type(c) \o "-id") IN
  At(c, "children_by_id") /\ List(c, Exists(Type(c), id), Part(c), Ids(ChildrenOf(Type(c), id, Part(c))))

\* get_slavenodes_by_idc_group: an option not given does not restrict.
Restricts(c, domain) == Var(c, domain \o "-id") # ""
slavenodes(c) ==
  LET domains == {d \in {"idc", "group"} : Restricts(c, d)} IN
  /\ At(c, "slavenodes")
  /\ List(c, \A d \in domains : Exists(d, Var(c, d \o "-id")), "slavenode",
          {id \in All("slavenode") : \A d \in domains :
             Has("slavenode", id, "meta", {d}) /\ Dict("slavenode", id, "meta")[d] = Var(c, d \o "-id")})

each(c) ==
  LET T == Type(c) IN
  /\ At(c, "each")
  /\ \/ Found(c, T) = {} /\ Here(c, Continue(cli[c]))
     \/ \E id \in Found(c, T) :
          Here(c, [Got(cli[c], T, id) EXCEPT !.found[T] = @ \ {id},
                                             !.calls = Head(@).body \o @])

print_list(c) == At(c, "print_list") /\ Here(c, Continue([cli[c] EXCEPT !.out = Found(c, Type(c))]))

all_or_of_slavenode(c) ==
  At(c, "all_or_of_slavenode")
  /\ Here(c, Instead(cli[c], IF Var(c, "slavenode-id") = "" THEN get_all_service_instance
                             ELSE <<GetById("slavenode"), Children("slavenode", "service-instance")>>))

\* Mutant: an instance without a state ends the loop over those of its node.
get_state_breaks(c) ==
  LET id == Obj(c, "service-instance")
      skip == Become([cli[c] EXCEPT !.found["service-instance"] = {}], Tail(Tail(cli[c].calls)))
  IN /\ At(c, "get_state")
     /\ IF IsPrefix("bs_", id)
        THEN Call(c, Has("service-instance", id, "meta", {"state"}), objects, Continue(cli[c]), skip)
        ELSE Here(c, skip)

\* An instance that is not of a BS, or whose state cannot be read, is skipped.
get_state(c) ==
  LET id == Obj(c, "service-instance")
      skip == Become(cli[c], Tail(Tail(cli[c].calls)))
  IN /\ At(c, "get_state")
     /\ IF IsPrefix("bs_", id)
        THEN Call(c, Has("service-instance", id, "meta", {"state"}), objects, Continue(cli[c]), skip)
        ELSE Here(c, skip)

\* A port that cannot be read is "-1".
get_port(c) ==
  At(c, "get_port")
  /\ Here(c, Continue([cli[c] EXCEPT !.placed = @ \cup {<<Obj(c, "slavenode"), Obj(c, "service-instance")>>}]))

cli_invoke(c) ==
  \/ get_object(c) \/ get_by_id(c) \/ get_command(c) \/ is_valid(c) \/ deserialize(c)
  \/ new_object(c) \/ new_service_instance(c) \/ add_object(c) \/ new_command(c) \/ delete_object(c)
  \/ add_attr(c) \/ set_attr(c) \/ del_attr(c) \/ set_all(c)
  \/ get_attr(c) \/ get_keys(c) \/ get_all(c) \/ get_holders(c) \/ take_all(c)
  \/ data_or_parent(c) \/ get_parent(c) \/ clone_planned_state(c) \/ print_instance(c)
  \/ return_failure(c) \/ generateid(c) \/ check_nodes(c) \/ clear(c)
  \/ Objects_of(c) \/ children(c) \/ children_by_id(c) \/ slavenodes(c) \/ each(c) \/ print_list(c)
  \/ all_or_of_slavenode(c) \/ get_state(c) \/ get_port(c)
=============================================================================
