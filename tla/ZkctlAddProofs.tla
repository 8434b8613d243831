--------------------------- MODULE ZkctlAddProofs ---------------------------
(***************************************************************************)
(* The adds of zkctl.bin: none that succeeds leaves an object without the  *)
(* meta data it was given.                                                 *)
(***************************************************************************)
EXTENDS ZkctlProofs

SetMeta(T) == On("set_all", T, "meta")
Deserialize == Local("deserialize")
SetInstance == On("set_all", "service-instance", "planned-state")
Clone == On("clone_planned_state", "service", "default-planned-state")
PrintIt == Local("print_instance")

\* What add does, type by type.
AddOf(T) ==
  CASE T = "service-instance" -> cli_add_service_instance
    [] T = "command" -> command_add
    [] T = "dyndata" -> cli_add_dyndata
    [] OTHER -> cli_add(T)

Adds(rows, impl) == "add" \in DOMAIN rows /\ rows["add"].impl = impl
NoAdd(rows) == "add" \notin DOMAIN rows

\* A row adds if its action is "add", and only then.
LEMMA OneRow ==
  ASSUME NEW action, NEW impl, NEW options
  PROVE  /\ action = "add" => Adds(Row(action, impl, options), impl)
         /\ action # "add" => NoAdd(Row(action, impl, options))
<1> DEFINE row == [impl |-> impl, options |-> options]
<1>1. Row(action, impl, options) = action :> row /\ row.impl = impl
  BY DEF Row
<1> HIDE DEF row
<1>2. DOMAIN (action :> row) = {action} /\ (action :> row)[action] = row
  BY OfOne
<1> QED BY <1>1, <1>2 DEF Adds, NoAdd

\* The first row of the name is the one that is found.
LEMMA FirstAdds ==
  ASSUME NEW f, NEW g, NEW impl
  PROVE  /\ Adds(f, impl) => Adds(f @@ g, impl)
         /\ NoAdd(f) /\ Adds(g, impl) => Adds(f @@ g, impl)
         /\ NoAdd(f) /\ NoAdd(g) => NoAdd(f @@ g)
<1>1. /\ DOMAIN (f @@ g) = DOMAIN f \cup DOMAIN g
      /\ \A k \in DOMAIN f : (f @@ g)[k] = f[k]
      /\ \A k \in DOMAIN g \ DOMAIN f : (f @@ g)[k] = g[k]
  BY OfBoth
<1> QED BY <1>1 DEF Adds, NoAdd

\* Six rows, none of which adds.
LEMMA NoneOfSix ==
  ASSUME NEW a, NEW b, NEW c, NEW d, NEW e, NEW f,
         NoAdd(a), NoAdd(b), NoAdd(c), NoAdd(d), NoAdd(e), NoAdd(f)
  PROVE  NoAdd(a @@ b @@ c @@ d @@ e @@ f)
<1>1. \A p, q : NoAdd(p) /\ NoAdd(q) => NoAdd(p @@ q)
  BY FirstAdds
<1> QED BY <1>1

\* Of the rows every type has, the one for "add" adds.
LEMMA TemplateAdds ==
  ASSUME NEW T, NEW own
  PROVE  Adds(AddDel(T, own), cli_add(T)) /\ NoAdd(MetaRows(T, own)) /\ NoAdd(SemaphoreRows(T, own))
<1>1. Adds(AddDel(T, own), cli_add(T))
  BY OneRow, FirstAdds DEF AddDel
<1>2. NoAdd(MetaRows(T, own))
  <2> DEFINE a == Row("add-meta-attr", cli_add_meta_attr(T), own \o KeyValue)
             b == Row("del-meta-attr", cli_del_meta_attr(T), own \o Key)
             d == Row("set-meta-attr", cli_set_meta_attr(T), own \o KeyValue)
             e == Row("get-meta-attr", cli_get_meta_attr(T), own \o Key)
             f == Row("set-meta-all", cli_set_meta_all(T), own \o Data)
             g == Row("get-meta-all", cli_get_meta_all(T), own \o <<Pretty>>)
  <2>1. NoAdd(a) /\ NoAdd(b) /\ NoAdd(d) /\ NoAdd(e) /\ NoAdd(f) /\ NoAdd(g)
    BY OneRow
  <2>2. MetaRows(T, own) = a @@ b @@ d @@ e @@ f @@ g
    BY DEF MetaRows
  <2> HIDE DEF a, b, d, e, f, g
  <2> QED BY <2>1, <2>2, NoneOfSix
<1>3. NoAdd(SemaphoreRows(T, own))
  <2> DEFINE a == Row("create-semaphore", cli_create_semaphore(T), own \o KeyNum)
             b == Row("destroy-semaphore", cli_destroy_semaphore(T), own \o Key)
             d == Row("get-semaphore-resource-num", cli_get_semaphore_resource_num(T), own \o Key)
             e == Row("set-semaphore-resource-num", cli_set_semaphore_resource_num(T), own \o KeyNum)
             f == Row("list-semaphore", cli_list_semaphore(T), own)
             g == Row("list-semaphore-holder", cli_list_semaphore_holder(T), own \o Key)
  <2>1. NoAdd(a) /\ NoAdd(b) /\ NoAdd(d) /\ NoAdd(e) /\ NoAdd(f) /\ NoAdd(g)
    BY OneRow
  <2>2. SemaphoreRows(T, own) = a @@ b @@ d @@ e @@ f @@ g
    BY DEF SemaphoreRows
  <2> HIDE DEF a, b, d, e, f, g
  <2> QED BY <2>1, <2>2, NoneOfSix
<1> QED BY <1>1, <1>2, <1>3

\* What each type's table adds with.
LEMMA TypesAdd ==
  /\ NoAdd(Cluster) /\ NoAdd(PlacementPlan)
  /\ Adds(Idc, cli_add("idc")) /\ Adds(Group, cli_add("group")) /\ Adds(Slavenode, cli_add("slavenode"))
  /\ Adds(IndexType, cli_add("index-type")) /\ Adds(IndexPartition, cli_add("index-partition"))
  /\ Adds(Index, cli_add("index")) /\ Adds(Service, cli_add("service"))
  /\ Adds(ServiceInstance, cli_add_service_instance) /\ Adds(Command, command_add)
  /\ Adds(Job, cli_add("job")) /\ Adds(DyndataMeta, cli_add("dyndata-meta"))
  /\ Adds(Dyndata, cli_add_dyndata)
<1>1. \A impl, options : Adds(Row("add", impl, options), impl)
  BY OneRow
<1>2. \A impl, options :
        /\ NoAdd(Row("list", impl, options)) /\ NoAdd(Row("create", impl, options))
        /\ NoAdd(Row("repair", impl, options)) /\ NoAdd(Row("destroy", impl, options))
        /\ NoAdd(Row("generateid", impl, options)) /\ NoAdd(Row("dump", impl, options))
  BY OneRow
<1>3. NoAdd(Cluster)
  BY <1>2, FirstAdds, TemplateAdds DEF Cluster
<1>4. NoAdd(PlacementPlan)
  BY <1>2 DEF PlacementPlan
<1>5. Adds(Idc, cli_add("idc")) /\ Adds(Group, cli_add("group"))
  BY <1>2, FirstAdds, TemplateAdds DEF Idc, Group, Domain
<1>6. Adds(Slavenode, cli_add("slavenode"))
  BY <1>2, FirstAdds, TemplateAdds DEF Slavenode
<1>7. Adds(IndexType, cli_add("index-type"))
  BY <1>2, FirstAdds, TemplateAdds DEF IndexType
<1>8. Adds(IndexPartition, cli_add("index-partition")) /\ Adds(Index, cli_add("index"))
  BY FirstAdds, TemplateAdds DEF IndexPartition, Index
<1>9. Adds(Service, cli_add("service"))
  BY <1>2, FirstAdds, TemplateAdds DEF Service
<1>10. Adds(ServiceInstance, cli_add_service_instance)
  BY <1>1, FirstAdds DEF ServiceInstance
<1>11. Adds(Command, command_add)
  BY <1>1, <1>2, FirstAdds DEF Command
<1>12. Adds(Job, cli_add("job")) /\ Adds(DyndataMeta, cli_add("dyndata-meta"))
  BY <1>2, FirstAdds, TemplateAdds DEF Job, DyndataMeta
<1>13. Adds(Dyndata, cli_add_dyndata)
  BY <1>1, FirstAdds DEF Dyndata
<1> QED BY <1>3, <1>4, <1>5, <1>6, <1>7, <1>8, <1>9, <1>10, <1>11, <1>12, <1>13

AddsIn(table) == \A T \in DOMAIN table : "add" \in DOMAIN table[T] => table[T]["add"].impl = AddOf(T)

\* A type whose table has no "add", or the one of its type.
LEMMA AddsInOne ==
  ASSUME NEW T, NEW rows, NoAdd(rows) \/ Adds(rows, AddOf(T))
  PROVE  AddsIn(T :> rows)
<1>1. DOMAIN (T :> rows) = {T} /\ (T :> rows)[T] = rows
  BY OfOne
<1> QED BY <1>1 DEF AddsIn, NoAdd, Adds

\* Such types together.
LEMMA AddsInBoth ==
  ASSUME NEW f, NEW g, AddsIn(f), AddsIn(g)
  PROVE  AddsIn(f @@ g)
<1>1. /\ DOMAIN (f @@ g) = DOMAIN f \cup DOMAIN g
      /\ \A k \in DOMAIN f : (f @@ g)[k] = f[k]
      /\ \A k \in DOMAIN g \ DOMAIN f : (f @@ g)[k] = g[k]
  BY OfBoth
<1> QED BY <1>1 DEF AddsIn

\* Every "add" of the table of all types is the one of its type.
LEMMA MetaAdds == AddsIn(g_meta)
<1>1. /\ AddOf("idc") = cli_add("idc") /\ AddOf("group") = cli_add("group")
      /\ AddOf("slavenode") = cli_add("slavenode") /\ AddOf("index-type") = cli_add("index-type")
      /\ AddOf("index-partition") = cli_add("index-partition") /\ AddOf("index") = cli_add("index")
      /\ AddOf("service") = cli_add("service") /\ AddOf("job") = cli_add("job")
      /\ AddOf("dyndata-meta") = cli_add("dyndata-meta")
      /\ AddOf("service-instance") = cli_add_service_instance /\ AddOf("command") = command_add
      /\ AddOf("dyndata") = cli_add_dyndata
  BY DEF AddOf
<1>2. /\ AddsIn("cluster" :> Cluster) /\ AddsIn("placement-plan" :> PlacementPlan)
  BY TypesAdd, AddsInOne
<1>3. /\ AddsIn("idc" :> Idc) /\ AddsIn("group" :> Group) /\ AddsIn("slavenode" :> Slavenode)
      /\ AddsIn("index-type" :> IndexType) /\ AddsIn("index-partition" :> IndexPartition)
      /\ AddsIn("index" :> Index)
  BY <1>1, TypesAdd, AddsInOne
<1>4. /\ AddsIn("service" :> Service) /\ AddsIn("service-instance" :> ServiceInstance)
      /\ AddsIn("command" :> Command) /\ AddsIn("job" :> Job)
      /\ AddsIn("dyndata-meta" :> DyndataMeta) /\ AddsIn("dyndata" :> Dyndata)
  BY <1>1, TypesAdd, AddsInOne
<1> QED BY <1>2, <1>3, <1>4, AddsInBoth DEF g_meta

\* A command that adds begins with the calls of its type.
LEMMA AddBegins ==
  ASSUME NEW r, Begun(r), r.request.action = "add"
  PROVE  r.calls = AddOf(r.request.type)
BY MetaAdds DEF AddsIn, Begun

New(T) == On("new_object", T, "")
NewCommand == On("new_command", "command", "")
NewInstance == On("new_service_instance", "service", "")
Add(T) == On("add_object", T, "")
DataOrParent == Local("data_or_parent")

\* The calls left before the data is read, when it has been, and when it is set.
BeforeData(q, T) ==
  \/ q = <<Deserialize, New(T), Add(T), SetMeta(T)>>
  \/ q = <<GetById("service-instance"), Deserialize, NewCommand, SetMeta(T)>>
  \/ q = <<Deserialize, NewCommand, SetMeta(T)>>
  \/ q = <<New(T), DataOrParent, Add(T), SetMeta(T)>>
  \/ q = <<DataOrParent, Add(T), SetMeta(T)>>
  \/ q = <<Deserialize, Add(T), SetMeta(T)>>
  \/ q = <<GetById("service"), GetById("slavenode"), Deserialize, NewInstance, Add(T), SetMeta(T), Clone, PrintIt>>
  \/ q = <<GetById("slavenode"), Deserialize, NewInstance, Add(T), SetMeta(T), Clone, PrintIt>>
  \/ q = <<Deserialize, NewInstance, Add(T), SetMeta(T), Clone, PrintIt>>

WithData(q, T) ==
  \/ q = <<New(T), Add(T), SetMeta(T)>>
  \/ q = <<Add(T), SetMeta(T)>>
  \/ q = <<SetMeta(T)>>
  \/ q = <<NewCommand, SetMeta(T)>>
  \/ q = <<NewInstance, Add(T), SetMeta(T), Clone, PrintIt>>
  \/ q = <<Add(T), SetMeta(T), Clone, PrintIt>>
  \/ q = <<SetMeta(T), Clone, PrintIt>>
Afterwards(q) == q = <<Clone, PrintIt>> \/ q = <<SetInstance, PrintIt>> \/ q = <<PrintIt>>

MakesObject == {"get_by_id", "new_object", "new_command", "new_service_instance", "add_object"}

\* Which functions the calls of an add are.
LEMMA AddCalls ==
  ASSUME NEW T
  PROVE  /\ New(T).call \in MakesObject /\ NewCommand.call \in MakesObject /\ NewInstance.call \in MakesObject
         /\ Add(T).call \in MakesObject /\ \A S : GetById(S).call \in MakesObject
         /\ Deserialize.call = "deserialize" /\ DataOrParent.call = "data_or_parent"
         /\ SetMeta(T).call = "set_all" /\ SetMeta(T).type = T /\ SetMeta(T).part = "meta"
         /\ SetInstance.call = "set_all" /\ SetInstance.type = "service-instance" /\ SetInstance.part = "planned-state"
         /\ Clone.call = "clone_planned_state" /\ PrintIt.call = "print_instance"
BY DEF New, NewCommand, NewInstance, Add, GetById, Deserialize, DataOrParent, SetMeta, SetInstance, Clone, PrintIt,
   MakesObject, On, Local, CallOn

\* The first call of a list of up to eight, and the others.
LEMMA Tails ==
  ASSUME NEW q, NEW a, NEW b, NEW c, NEW d, NEW e, NEW f, NEW g, NEW h
  PROVE  /\ q = <<a>> => Head(q) = a /\ Tail(q) = <<>>
         /\ q = <<a, b>> => Head(q) = a /\ Tail(q) = <<b>> /\ Tail(q) # <<>>
         /\ q = <<a, b, c>> => Head(q) = a /\ Tail(q) = <<b, c>> /\ Tail(q) # <<>>
         /\ q = <<a, b, c, d>> => Head(q) = a /\ Tail(q) = <<b, c, d>> /\ Tail(q) # <<>>
         /\ q = <<a, b, c, d, e>> => Head(q) = a /\ Tail(q) = <<b, c, d, e>> /\ Tail(q) # <<>>
         /\ q = <<a, b, c, d, e, f>> => Head(q) = a /\ Tail(q) = <<b, c, d, e, f>> /\ Tail(q) # <<>>
         /\ q = <<a, b, c, d, e, f, g>> => Head(q) = a /\ Tail(q) = <<b, c, d, e, f, g>> /\ Tail(q) # <<>>
         /\ q = <<a, b, c, d, e, f, g, h>> => Head(q) = a /\ Tail(q) = <<b, c, d, e, f, g, h>> /\ Tail(q) # <<>>
<1>1. q = <<a>> => Head(q) = a /\ Tail(q) = <<>>
  OBVIOUS
<1>2. q = <<a, b>> => Head(q) = a /\ Tail(q) = <<b>> /\ Tail(q) # <<>>
  OBVIOUS
<1>3. q = <<a, b, c>> => Head(q) = a /\ Tail(q) = <<b, c>> /\ Tail(q) # <<>>
  OBVIOUS
<1>4. q = <<a, b, c, d>> => Head(q) = a /\ Tail(q) = <<b, c, d>> /\ Tail(q) # <<>>
  OBVIOUS
<1>5. q = <<a, b, c, d, e>> => Head(q) = a /\ Tail(q) = <<b, c, d, e>> /\ Tail(q) # <<>>
  OBVIOUS
<1>6. q = <<a, b, c, d, e, f>> => Head(q) = a /\ Tail(q) = <<b, c, d, e, f>> /\ Tail(q) # <<>>
  OBVIOUS
<1>7. q = <<a, b, c, d, e, f, g>> => Head(q) = a /\ Tail(q) = <<b, c, d, e, f, g>> /\ Tail(q) # <<>>
  OBVIOUS
<1>8. q = <<a, b, c, d, e, f, g, h>> => Head(q) = a /\ Tail(q) = <<b, c, d, e, f, g, h>> /\ Tail(q) # <<>>
  OBVIOUS
<1> QED BY <1>1, <1>2, <1>3, <1>4, <1>5, <1>6, <1>7, <1>8

\* One call put before a list.
LEMMA Before ==
  ASSUME NEW a, NEW b, NEW c
  PROVE  <<a>> \o <<b>> = <<a, b>> /\ <<a>> \o <<b, c>> = <<a, b, c>>
<1> DEFINE S == {a, b, c}
<1>1. <<a>> \in Seq(S) /\ <<b>> \in Seq(S) /\ <<b, c>> \in Seq(S) /\ <<a, b>> \in Seq(S) /\ <<a, b, c>> \in Seq(S)
  OBVIOUS
<1>2. /\ <<a>> \o <<b>> \in Seq(S) /\ Len(<<a>> \o <<b>>) = 2
      /\ \A i \in 1..2 : (<<a>> \o <<b>>)[i] = IF i <= 1 THEN <<a>>[i] ELSE <<b>>[i - 1]
  <2> HIDE DEF S
  <2> QED BY <1>1, ConcatProperties
<1>3. /\ <<a>> \o <<b, c>> \in Seq(S) /\ Len(<<a>> \o <<b, c>>) = 3
      /\ \A i \in 1..3 : (<<a>> \o <<b, c>>)[i] = IF i <= 1 THEN <<a>>[i] ELSE <<b, c>>[i - 1]
  <2> HIDE DEF S
  <2> QED BY <1>1, ConcatProperties
<1>4. \A i \in 1..2 : (<<a>> \o <<b>>)[i] = <<a, b>>[i]
  <2>1. \A i \in 1..2 : i = 1 \/ i = 2
    OBVIOUS
  <2> QED BY <1>2, <2>1
<1>5. \A i \in 1..3 : (<<a>> \o <<b, c>>)[i] = <<a, b, c>>[i]
  <2>1. \A i \in 1..3 : i = 1 \/ i = 2 \/ i = 3
    OBVIOUS
  <2> QED BY <1>3, <2>1
<1> DEFINE ab == <<a, b>>
           abc == <<a, b, c>>
<1>6. Len(ab) = 2 /\ Len(abc) = 3 /\ ab \in Seq(S) /\ abc \in Seq(S)
  BY <1>1
<1> HIDE DEF S, ab, abc
<1>7. <<a>> \o <<b>> = ab
  BY <1>2, <1>4, <1>6, SeqEqual DEF ab
<1>8. <<a>> \o <<b, c>> = abc
  BY <1>3, <1>5, <1>6, SeqEqual DEF abc
<1> QED BY <1>7, <1>8 DEF ab, abc

\* From place to place.
LEMMA AddPlaces ==
  ASSUME NEW T, NEW q
  PROVE  /\ BeforeData(q, T) =>
              /\ Tail(q) # <<>>
              /\ \/ Head(q).call \in MakesObject /\ BeforeData(Tail(q), T)
                 \/ Head(q).call = "deserialize" /\ WithData(Tail(q), T)
                 \/ Head(q).call = "data_or_parent" /\ BeforeData(<<Deserialize>> \o Tail(q), T)
         /\ WithData(q, T) =>
              \/ Head(q).call \in MakesObject /\ WithData(Tail(q), T) /\ Tail(q) # <<>>
              \/ Head(q) = SetMeta(T) /\ (Tail(q) = <<>> \/ (Tail(q) # <<>> /\ Afterwards(Tail(q))))
         /\ Afterwards(q) =>
              \/ Head(q) = Clone /\ Tail(q) = <<PrintIt>> /\ PlannedState \o Tail(q) = <<SetInstance, PrintIt>>
              \/ Head(q) = SetInstance /\ Tail(q) = <<PrintIt>>
              \/ Head(q) = PrintIt /\ Tail(q) = <<>>
<1> DEFINE new == New(T)
           add == Add(T)
           set == SetMeta(T)
           si == GetById("service-instance")
           sv == GetById("service")
           sn == GetById("slavenode")
           b1 == <<Deserialize, new, add, set>>
           b2 == <<si, Deserialize, NewCommand, set>>
           b3 == <<Deserialize, NewCommand, set>>
           b4 == <<new, DataOrParent, add, set>>
           b5 == <<DataOrParent, add, set>>
           b6 == <<Deserialize, add, set>>
           b7 == <<sv, sn, Deserialize, NewInstance, add, set, Clone, PrintIt>>
           b8 == <<sn, Deserialize, NewInstance, add, set, Clone, PrintIt>>
           b9 == <<Deserialize, NewInstance, add, set, Clone, PrintIt>>
           w1 == <<new, add, set>>
           w2 == <<add, set>>
           w3 == <<set>>
           w4 == <<NewCommand, set>>
           w5 == <<NewInstance, add, set, Clone, PrintIt>>
           w6 == <<add, set, Clone, PrintIt>>
           w7 == <<set, Clone, PrintIt>>
           before(p) == BeforeData(p, T)
           with(p) == WithData(p, T)
<1>1. /\ new.call \in MakesObject /\ add.call \in MakesObject /\ NewCommand.call \in MakesObject
      /\ NewInstance.call \in MakesObject /\ si.call \in MakesObject /\ sv.call \in MakesObject /\ sn.call \in MakesObject
  BY AddCalls
<1>2. Deserialize.call = "deserialize" /\ DataOrParent.call = "data_or_parent"
  BY AddCalls
<1>3. /\ \A p : before(p) <=> \/ p = b1 \/ p = b2 \/ p = b3 \/ p = b4 \/ p = b5 \/ p = b6 \/ p = b7 \/ p = b8
                              \/ p = b9
      /\ \A p : with(p) <=> p = w1 \/ p = w2 \/ p = w3 \/ p = w4 \/ p = w5 \/ p = w6 \/ p = w7
  BY DEF BeforeData, WithData
<1> HIDE DEF new, add, set, si, sv, sn, before, with
<1>4. /\ Head(b1) = Deserialize /\ Tail(b1) = w1 /\ Tail(b1) # <<>>
      /\ Head(b2) = si /\ Tail(b2) = b3 /\ Tail(b2) # <<>>
      /\ Head(b3) = Deserialize /\ Tail(b3) = w4 /\ Tail(b3) # <<>>
      /\ Head(b4) = new /\ Tail(b4) = b5 /\ Tail(b4) # <<>>
      /\ Head(b5) = DataOrParent /\ Tail(b5) = w2 /\ Tail(b5) # <<>>
      /\ Head(b6) = Deserialize /\ Tail(b6) = w2 /\ Tail(b6) # <<>>
  BY Tails
<1>5. /\ Head(b7) = sv /\ Tail(b7) = b8 /\ Tail(b7) # <<>>
      /\ Head(b8) = sn /\ Tail(b8) = b9 /\ Tail(b8) # <<>>
      /\ Head(b9) = Deserialize /\ Tail(b9) = w5 /\ Tail(b9) # <<>>
  BY Tails
<1>7. /\ Head(w1) = new /\ Tail(w1) = w2 /\ Tail(w1) # <<>>
      /\ Head(w2) = add /\ Tail(w2) = w3 /\ Tail(w2) # <<>>
      /\ Head(w3) = set /\ Tail(w3) = <<>>
      /\ Head(w4) = NewCommand /\ Tail(w4) = w3 /\ Tail(w4) # <<>>
      /\ Head(w5) = NewInstance /\ Tail(w5) = w6 /\ Tail(w5) # <<>>
      /\ Head(w6) = add /\ Tail(w6) = w7 /\ Tail(w6) # <<>>
      /\ Head(w7) = set /\ Tail(w7) = <<Clone, PrintIt>> /\ Tail(w7) # <<>>
  BY Tails
<1>8. <<Deserialize>> \o w2 = b6
  BY Before
<1>9. Afterwards(<<Clone, PrintIt>>)
  BY DEF Afterwards
<1> HIDE DEF b1, b2, b3, b4, b5, b6, b7, b8, b9, w1, w2, w3, w4, w5, w6, w7
<1>10. before(q) =>
         /\ Tail(q) # <<>>
         /\ \/ Head(q).call \in MakesObject /\ before(Tail(q))
            \/ Head(q).call = "deserialize" /\ with(Tail(q))
            \/ Head(q).call = "data_or_parent" /\ before(<<Deserialize>> \o Tail(q))
  BY <1>1, <1>2, <1>3, <1>4, <1>5, <1>8
<1>11. with(q) =>
         \/ Head(q).call \in MakesObject /\ with(Tail(q)) /\ Tail(q) # <<>>
         \/ Head(q) = set /\ (Tail(q) = <<>> \/ (Tail(q) # <<>> /\ Afterwards(Tail(q))))
  BY <1>1, <1>3, <1>7, <1>9
<1>6. ASSUME Afterwards(q)
      PROVE  \/ Head(q) = Clone /\ Tail(q) = <<PrintIt>> /\ PlannedState \o Tail(q) = <<SetInstance, PrintIt>>
             \/ Head(q) = SetInstance /\ Tail(q) = <<PrintIt>>
             \/ Head(q) = PrintIt /\ Tail(q) = <<>>
  <2>1. <<SetInstance>> \o <<PrintIt>> = <<SetInstance, PrintIt>> /\ PlannedState = <<SetInstance>>
    BY Before DEF PlannedState, SetInstance
  <2>2. /\ q = <<Clone, PrintIt>> => Head(q) = Clone /\ Tail(q) = <<PrintIt>>
        /\ q = <<SetInstance, PrintIt>> => Head(q) = SetInstance /\ Tail(q) = <<PrintIt>>
        /\ q = <<PrintIt>> => Head(q) = PrintIt /\ Tail(q) = <<>>
    BY Tails
  <2> QED BY <1>6, <2>1, <2>2 DEF Afterwards
<1> QED BY <1>6, <1>10, <1>11 DEF set, before, with

\* Before the data is read some calls are left.
LEMMA BeforeIsSome ==
  ASSUME NEW T, NEW q, BeforeData(q, T)
  PROVE  q # <<>>
<1>1. \A a, b, c, d : <<a, b, c>> # <<>> /\ <<a, b, c, d>> # <<>>
  OBVIOUS
<1>2. \A a, b, c, d, e, f : <<a, b, c, d, e>> # <<>> /\ <<a, b, c, d, e, f>> # <<>>
  OBVIOUS
<1>3. \A a, b, c, d, e, f, g, h : <<a, b, c, d, e, f, g>> # <<>> /\ <<a, b, c, d, e, f, g, h>> # <<>>
  OBVIOUS
<1> QED BY <1>1, <1>2, <1>3, Zenon DEF BeforeData

\* An add begins before its data is read.
LEMMA AddStarts ==
  ASSUME NEW T
  PROVE  BeforeData(AddOf(T), T)
BY DEF AddOf, cli_add, cli_add_service_instance, command_add, cli_add_dyndata, BeforeData, Deserialize, New, Add,
   SetMeta, DataOrParent, NewCommand, NewInstance, Clone, PrintIt

-----------------------------------------------------------------------------
\* The data of an add, and whether it is the dictionary of some.
DataText(r) == r.request.vars["data"]
Adding(r) == r.request.action = "add" /\ DataText(r) \in DOMAIN Json /\ Json[DataText(r)] # Empty

\* The object, if it is there, has meta data.
Full(type, id) == <<type, id>> \in DOMAIN objects => objects[<<type, id>>].parts["meta"] # Empty

AddKnows(r) ==
  LET T == r.request.type IN
  Adding(r) /\ r.pc = "running" =>
    \/ BeforeData(r.calls, T)
    \/ WithData(r.calls, T) /\ r.data = Json[DataText(r)]
    \/ Afterwards(r.calls) /\ Full(T, r.obj[T])

\* The calls before the meta data is set leave what has been read.
LEMMA PreparingMoves ==
  ASSUME WellAsked, NEW c \in Clients, cli_invoke(c), Head(cli[c].calls).call \in MakesObject,
         Tail(cli[c].calls) # <<>>
  PROVE  \/ Failed(cli'[c])
         \/ /\ cli'[c].pc = "running" /\ cli'[c].calls = Tail(cli[c].calls)
            /\ cli'[c].data = cli[c].data
<1> DEFINE r == cli[c]
           s == cli'[c]
<1>1. DOMAIN r = CliFields /\ r.pc = "running"
  BY WhichCall DEF WellAsked, Asked, Running
<1>2. get_by_id(c) \/ new_object(c) \/ new_command(c) \/ new_service_instance(c) \/ add_object(c)
  BY WhichCall DEF MakesObject
<1>3. s = Fail(r) \/ \E type, id : s = Continue(Got(r, type, id))
  <2>1. get_by_id(c) => s = Fail(r) \/ \E type, id : s = Continue(Got(r, type, id))
    BY Outcomes DEF get_by_id, Find
  <2>2. new_object(c) => s = Fail(r) \/ \E type, id : s = Continue(Got(r, type, id))
    BY Outcomes DEF new_object
  <2>3. new_service_instance(c) => s = Fail(r) \/ \E type, id : s = Continue(Got(r, type, id))
    BY Outcomes DEF new_service_instance
  <2>4. add_object(c) \/ new_command(c) => s = Fail(r) \/ \E type, id : s = Continue(Got(r, type, id))
    BY Outcomes DEF add_object, new_command, Create
  <2> QED BY <1>2, <2>1, <2>2, <2>3, <2>4
<1>4. ASSUME NEW type, NEW id, s = Continue(Got(r, type, id))
      PROVE  s.pc = "running" /\ s.calls = Tail(r.calls) /\ s.data = r.data
  <2> DEFINE g == Got(r, type, id)
             t == Tail(r.calls)
  <2>1. DOMAIN g = CliFields /\ g.pc = r.pc /\ g.calls = r.calls /\ g.data = r.data
    BY <1>1 DEF Got, CliFields
  <2>2. s = Become(g, t)
    BY <1>4, <2>1 DEF Continue
  <2>3. t # <<>>
    OBVIOUS
  <2> HIDE DEF g, t, s, r
  <2>4. s.pc = "running" /\ s.calls = t /\ s.data = r.data
    BY <1>1, <2>1, <2>2, <2>3, Onward
  <2> QED BY <2>4 DEF t
<1> QED BY <1>3, <1>4, FailFails

\* Deserializing.
LEMMA DeserializeMoves ==
  ASSUME WellAsked, NEW c \in Clients, deserialize(c), Tail(cli[c].calls) # <<>>, DataText(cli[c]) \in DOMAIN Json
  PROVE  cli'[c].pc = "running" /\ cli'[c].calls = Tail(cli[c].calls) /\ cli'[c].data = Json[DataText(cli[c])]
<1> DEFINE r == cli[c]
           s == cli'[c]
           d == [r EXCEPT !.data = Json[DataText(r)]]
           t == Tail(r.calls)
<1>1. DOMAIN r = CliFields /\ r.pc = "running"
  BY DEF WellAsked, Asked, deserialize, At, Running
<1>2. s = Continue(d)
  BY OwnStep DEF deserialize, Var, DataText
<1>3. DOMAIN d = CliFields /\ d.pc = "running" /\ d.calls = r.calls /\ d.data = Json[DataText(r)]
  BY <1>1 DEF CliFields
<1>4. s = Become(d, t) /\ t # <<>>
  BY <1>2, <1>3 DEF Continue
<1> HIDE DEF d, t, s
<1>5. s.pc = "running" /\ s.calls = t /\ s.data = Json[DataText(r)]
  BY <1>3, <1>4, Onward
<1> QED BY <1>5 DEF t, s

\* With data given, a dyndata takes them and not its parent's.
LEMMA ChoiceMoves ==
  ASSUME WellAsked, NEW c \in Clients, data_or_parent(c), DataText(cli[c]) \in DOMAIN Json,
         NEW calls, calls = <<Deserialize>> \o Tail(cli[c].calls), calls # <<>>
  PROVE  cli'[c].pc = "running" /\ cli'[c].calls = calls
<1> DEFINE r == cli[c]
           s == cli'[c]
<1>1. DOMAIN r = CliFields /\ r.pc = "running"
  BY DEF WellAsked, Asked, data_or_parent, At, Running
<1>2. DataText(r) # ""
  BY JsonAssumption
<1>3. s = Instead(r, <<Deserialize>>)
  BY <1>2, OwnStep DEF data_or_parent, Var, DataText, Deserialize
<1>4. s = Become(r, calls)
  BY <1>3 DEF Instead
<1> HIDE DEF s
<1>5. \A q : q # <<>> => LET b == Become(r, q) IN b.pc = r.pc /\ b.calls = q
  BY <1>1, Onward
<1>6. s.pc = "running" /\ s.calls = calls
  BY <1>1, <1>4, <1>5
<1> QED BY <1>6 DEF s

\* The meta data are set.
LEMMA SetMetaMoves ==
  ASSUME WellAsked, StoreOK, NEW c \in Clients, set_all(c), NEW T, Head(cli[c].calls) = SetMeta(T),
         DataText(cli[c]) \in DOMAIN Json, cli[c].data = Json[DataText(cli[c])], cli[c].data # Empty,
         NEW id, id = cli[c].obj[T]
  PROVE  \/ Failed(cli'[c])
         \/ /\ cli'[c] = Become(cli[c], Tail(cli[c].calls))
            /\ Full(T, id)'
<1> DEFINE r == cli[c]
           s == cli'[c]
           key == <<T, id>>
           kv == r.request.key_values
           data == r.data
           dict == kv @@ data
<1>1. Type(c) = T /\ Part(c) = "meta" /\ Obj(c, T) = id
  BY AddCalls DEF Type, Part, Obj
<1>2. \/ s = Fail(r)
      \/ s = Continue(r) /\ key \in DOMAIN objects /\ objects' = [objects EXCEPT ![key].parts["meta"] = dict]
  <2> DEFINE store == [objects EXCEPT ![key].parts["meta"] = dict]
  <2>1. Call(c, key \in DOMAIN objects, store, Continue(r), Fail(r))
    BY <1>1 DEF set_all, Update, With, Exists
  <2> HIDE DEF store, key, r, s
  <2>2. \/ s = Fail(r)
        \/ s = Continue(r) /\ key \in DOMAIN objects /\ objects' = store
    BY <2>1, Outcomes DEF s
  <2> QED BY <2>2 DEF store
<1>3. dict # Empty
  <2>1. DOMAIN dict = DOMAIN kv \cup DOMAIN data
    <3> HIDE DEF kv, data
    <3> QED BY OfBoth
  <2>2. data = [k \in DOMAIN data |-> data[k]]
    BY JsonAssumption
  <2>3. DOMAIN data # {}
    BY <2>2 DEF Empty
  <2>4. DOMAIN Empty = {}
    BY DEF Empty
  <2> HIDE DEF dict, data, kv
  <2> QED BY <2>1, <2>3, <2>4
<1>4. ASSUME key \in DOMAIN objects, objects' = [objects EXCEPT ![key].parts["meta"] = dict]
      PROVE  objects'[key].parts["meta"] # Empty
  <2>1. "meta" \in DOMAIN objects[key].parts /\ "parts" \in DOMAIN objects[key]
    BY <1>4 DEF StoreOK, Parts
  <2> HIDE DEF dict, key
  <2>2. objects'[key].parts["meta"] = dict
    BY <1>4, <2>1
  <2> QED BY <1>3, <2>2
<1> QED BY <1>2, <1>4, FailFails DEF Full, Continue

\* The planned state of a new instance is set: its meta data stay.
LEMMA SetInstanceMoves ==
  ASSUME WellAsked, StoreOK, NEW c \in Clients, set_all(c), Head(cli[c].calls) = SetInstance,
         NEW type, NEW id, Full(type, id)
  PROVE  /\ Failed(cli'[c]) \/ cli'[c] = Become(cli[c], Tail(cli[c].calls))
         /\ Full(type, id)'
<1> DEFINE r == cli[c]
           s == cli'[c]
           k == <<"service-instance", Obj(c, "service-instance")>>
           dict == r.request.key_values @@ r.data
           key == <<type, id>>
<1>1. Type(c) = "service-instance" /\ Part(c) = "planned-state"
  BY AddCalls DEF Type, Part
<1>2. /\ s = Fail(r) \/ s = Continue(r)
      /\ \/ objects' = objects
         \/ k \in DOMAIN objects /\ objects' = [objects EXCEPT ![k].parts["planned-state"] = dict]
  BY <1>1, Outcomes DEF set_all, Update, With, Exists
<1>3. CASE objects' = objects
  BY <1>2, <1>3, FailFails DEF Full, Continue
<1>4. CASE k \in DOMAIN objects /\ objects' = [objects EXCEPT ![k].parts["planned-state"] = dict]
  <2> HIDE DEF dict, k
  <2>1. DOMAIN objects' = DOMAIN objects
    BY <1>4
  <2>2. \A j \in DOMAIN objects : objects'[j].parts["meta"] = objects[j].parts["meta"]
    BY <1>4 DEF StoreOK, Parts
  <2> QED BY <1>2, <2>1, <2>2, FailFails DEF Full, Continue
<1> QED BY <1>2, <1>3, <1>4

\* A call of an add.
LEMMA AddMoves ==
  ASSUME WellAsked, StoreOK, NEW c \in Clients, cli_invoke(c), Adding(cli[c]), AddKnows(cli[c]),
         NEW T, T = cli[c].request.type, NEW id, id = cli[c].obj[T], NEW data, data = Json[DataText(cli[c])]
  PROVE  LET s == cli'[c] IN
         \/ Failed(s)
         \/ s.pc = "running" /\ BeforeData(s.calls, T)
         \/ s.pc = "running" /\ WithData(s.calls, T) /\ s.data = data
         \/ s.pc = "running" /\ Afterwards(s.calls) /\ s.obj[T] = id /\ Full(T, id)'
         \/ s.pc = "done" /\ Full(T, id)'
<1> DEFINE r == cli[c]
           s == cli'[c]
           x == Head(r.calls)
           t == Tail(r.calls)
           full == Full(T, id)'
<1>1. /\ DOMAIN r = CliFields /\ r.pc = "running" /\ DataText(r) \in DOMAIN Json /\ Json[DataText(r)] # Empty
      /\ BeforeData(r.calls, T) \/ (WithData(r.calls, T) /\ r.data = data) \/ (Afterwards(r.calls) /\ Full(T, id))
  BY WhichCall DEF Running, WellAsked, Asked, Adding, AddKnows
<1>2. CASE BeforeData(r.calls, T)
  <2>1. /\ t # <<>>
        /\ \/ x.call \in MakesObject /\ BeforeData(t, T)
           \/ x.call = "deserialize" /\ WithData(t, T)
           \/ x.call = "data_or_parent" /\ BeforeData(<<Deserialize>> \o t, T)
    BY <1>2, AddPlaces
  <2>2. CASE x.call \in MakesObject /\ BeforeData(t, T)
    BY <2>1, <2>2, PreparingMoves
  <2>3. CASE x.call = "deserialize" /\ WithData(t, T)
    <3>1. deserialize(c)
      BY <2>3, WhichCall
    <3> QED BY <1>1, <2>1, <2>3, <3>1, DeserializeMoves
  <2>4. CASE x.call = "data_or_parent" /\ BeforeData(<<Deserialize>> \o t, T)
    <3>1. data_or_parent(c)
      BY <2>4, WhichCall
    <3>2. PICK q : q = <<Deserialize>> \o t
      OBVIOUS
    <3>3. q # <<>>
      <4>1. BeforeData(q, T)
        BY <2>4, <3>2
      <4> QED BY <4>1, BeforeIsSome
    <3>4. s.pc = "running" /\ s.calls = q
      BY <1>1, <3>1, <3>2, <3>3, ChoiceMoves
    <3> QED BY <2>4, <3>2, <3>4
  <2> QED BY <2>1, <2>2, <2>3, <2>4
<1>3. CASE WithData(r.calls, T) /\ r.data = data
  <2>1. \/ x.call \in MakesObject /\ WithData(t, T) /\ t # <<>>
        \/ x = SetMeta(T) /\ (t = <<>> \/ (t # <<>> /\ Afterwards(t)))
    <3>1. PICK q : q = r.calls
      OBVIOUS
    <3>2. WithData(q, T)
      BY <1>3, <3>1
    <3>3. \/ Head(q).call \in MakesObject /\ WithData(Tail(q), T) /\ Tail(q) # <<>>
          \/ Head(q) = SetMeta(T) /\ (Tail(q) = <<>> \/ (Tail(q) # <<>> /\ Afterwards(Tail(q))))
      BY <3>2, AddPlaces, ZenonT(40)
    <3>4. Head(q) = x /\ Tail(q) = t
      BY <3>1
    <3> HIDE DEF x, t
    <3> QED BY <3>3, <3>4
  <2>2. CASE x.call \in MakesObject /\ WithData(t, T) /\ t # <<>>
    BY <1>3, <2>2, PreparingMoves
  <2>3. CASE x = SetMeta(T) /\ (t = <<>> \/ (t # <<>> /\ Afterwards(t)))
    <3>1. set_all(c)
      BY <2>3, AddCalls, WhichCall
    <3>2. Failed(s) \/ (s = Become(r, t) /\ full)
      BY <1>1, <1>3, <2>3, <3>1, SetMetaMoves
    <3>3. \A q : LET b == Become(r, q) IN
            /\ q = <<>> => b.pc = "done"
            /\ q # <<>> => b.pc = r.pc /\ b.calls = q /\ b.obj = r.obj
      BY <1>1, Onward
    <3> HIDE DEF s, t, full
    <3>4. \/ Failed(s)
          \/ s.pc = "done" /\ full
          \/ s.pc = "running" /\ Afterwards(s.calls) /\ s.obj = r.obj /\ full
      BY <1>1, <2>3, <3>2, <3>3
    <3> QED BY <3>4 DEF s, full
  <2> QED BY <2>1, <2>2, <2>3
<1>4. CASE Afterwards(r.calls) /\ Full(T, id)
  <2>1. \/ x = Clone /\ t = <<PrintIt>> /\ PlannedState \o t = <<SetInstance, PrintIt>>
        \/ x = SetInstance /\ t = <<PrintIt>>
        \/ x = PrintIt /\ t = <<>>
    BY <1>4, AddPlaces
  <2>2. objects' = objects => full
    BY <1>4 DEF Full
  <2>3. \A q, p : DOMAIN p = CliFields =>
          LET b == Become(p, q) IN
          /\ q = <<>> => b.pc = "done"
          /\ q # <<>> => b.pc = p.pc /\ b.calls = q /\ b.obj = p.obj
    BY Onward
  <2>4. <<PrintIt>> # <<>> /\ <<SetInstance, PrintIt>> # <<>> /\ Afterwards(<<PrintIt>>) /\ Afterwards(<<SetInstance, PrintIt>>)
    BY DEF Afterwards
  <2>5. CASE x = Clone /\ t = <<PrintIt>> /\ PlannedState \o t = <<SetInstance, PrintIt>>
    <3> DEFINE d == [r EXCEPT !.data = Attrs(c)]
               both == <<SetInstance, PrintIt>>
               one == <<PrintIt>>
    <3>1. clone_planned_state(c)
      BY <2>5, AddCalls, WhichCall
    <3>2. objects' = objects /\ (s = Instead(d, PlannedState) \/ s = Continue(r))
      BY <3>1, Outcomes DEF clone_planned_state
    <3>3. DOMAIN d = CliFields /\ d.pc = r.pc /\ d.calls = r.calls /\ d.obj = r.obj
      BY <1>1 DEF CliFields
    <3>4. objects' = objects /\ (s = Become(d, both) \/ s = Become(r, one))
      BY <2>5, <3>2, <3>3 DEF Instead, Continue
    <3> HIDE DEF d, both, one, s, full
    <3>5. both # <<>> /\ one # <<>> /\ Afterwards(both) /\ Afterwards(one)
      BY <2>4 DEF both, one
    <3>6. s.pc = "running" /\ Afterwards(s.calls) /\ s.obj = r.obj /\ full
      BY <1>1, <2>2, <2>3, <3>3, <3>4, <3>5
    <3> QED BY <3>6 DEF s, full
  <2>6. CASE x = SetInstance /\ t = <<PrintIt>>
    <3>1. set_all(c)
      BY <2>6, AddCalls, WhichCall
    <3>2. (Failed(s) \/ s = Become(r, t)) /\ full
      BY <1>4, <2>6, <3>1, SetInstanceMoves
    <3> DEFINE one == <<PrintIt>>
    <3>3. one # <<>> /\ Afterwards(one) /\ t = one
      BY <2>4, <2>6
    <3> HIDE DEF one, t, s, full
    <3>4. Failed(s) \/ (s.pc = "running" /\ Afterwards(s.calls) /\ s.obj = r.obj /\ full)
      BY <1>1, <2>3, <3>2, <3>3
    <3> QED BY <3>4 DEF s, full
  <2>7. CASE x = PrintIt /\ t = <<>>
    <3> DEFINE d == [r EXCEPT !.out = {Obj(c, "service-instance")}]
    <3>1. print_instance(c)
      BY <2>7, AddCalls, WhichCall
    <3>2. objects' = objects /\ s = Continue(d)
      BY <3>1, OwnStep DEF print_instance
    <3>3. DOMAIN d = CliFields /\ d.calls = r.calls
      BY <1>1 DEF CliFields
    <3>4. s = Become(d, t)
      BY <3>2, <3>3 DEF Continue
    <3> HIDE DEF d, s, t, full
    <3>5. s.pc = "done" /\ full
      BY <2>2, <2>3, <2>7, <3>2, <3>3, <3>4
    <3> QED BY <3>5 DEF s, full
  <2> QED BY <2>1, <2>5, <2>6, <2>7
<1> QED BY <1>1, <1>2, <1>3, <1>4
-----------------------------------------------------------------------------
\* While an add runs that has set the meta data of its object, nobody else takes
\* all of them away.
Undisturbed ==
  \A c \in Clients :
    LET T == cli[c].request.type  id == cli[c].obj[T] IN
    /\ Running(c) /\ Adding(cli[c]) /\ Afterwards(cli[c].calls) /\ cli'[c] = cli[c] /\ Full(T, id)
    => (<<T, id>> \in DOMAIN objects' => objects'[<<T, id>>].parts["meta"] # Empty)

\* The inductive invariant: at each of its calls an add knows that the data is
\* still to be read, that it has it, or that the object has it.
AddInv == WellAsked /\ StoreOK /\ \A c \in Clients : AddKnows(cli[c])

\* An add that begins, and one that no longer runs, knows nothing yet.
LEMMA BegunAdds ==
  ASSUME NEW r, Begun(r) \/ r.pc # "running"
  PROVE  AddKnows(r)
<1>1. ASSUME Begun(r), r.request.action = "add" PROVE BeforeData(r.calls, r.request.type)
  BY <1>1, AddBegins, AddStarts
<1> QED BY <1>1 DEF AddKnows, Adding

\* At first nothing is added.
LEMMA InitAddInv == Init => AddInv
<1> SUFFICES ASSUME Init PROVE AddInv
  OBVIOUS
<1>1. WellAsked
  BY InitWellAsked
<1>2. StoreOK
  BY ScenarioAssumption DEF Init, StoreOK
<1>3. \A c \in Clients : cli[c].pc # "running"
  BY DEF Init, ZkctlInit, NotRun
<1> QED BY <1>1, <1>2, <1>3, BegunAdds DEF AddInv

\* Every step, of an add or of another client, keeps what each add knows.
LEMMA StepAddInv == AddInv /\ [Next]_vars /\ [Undisturbed]_vars => AddInv'
<1> SUFFICES ASSUME AddInv, [Next]_vars, [Undisturbed]_vars PROVE AddInv'
  OBVIOUS
<1>1. WellAsked'
  BY StepWellAsked DEF AddInv
<1>2. \/ objects' = objects /\ cli' = cli
      \/ \E c \in Clients :
           /\ \E r : cli' = [cli EXCEPT ![c] = r]
           /\ \/ objects' = objects /\ (Begun(cli'[c]) \/ Refused(cli'[c]) \/ cli'[c] = NotRun)
              \/ objects' = objects /\ Running(c) /\ cli'[c] = Done(cli[c], "killed")
              \/ cli_invoke(c) /\ Keeps(cli[c], cli'[c])
  BY StepCases DEF AddInv
<1>3. Stores
  BY <1>2, InvokeStores, StoredWhenUnchanged
<1>4. StoreOK'
  BY <1>3, StoresKeep DEF AddInv
<1>5. ASSUME NEW c \in Clients, cli'[c] = cli[c] PROVE AddKnows(cli[c])'
  <2> DEFINE r == cli[c]
             T == r.request.type
  <2>1. AddKnows(r) /\ cli'[c] = r
    BY <1>5 DEF AddInv
  <2>2. ASSUME Adding(r), r.pc = "running", Afterwards(r.calls), Full(T, r.obj[T])
        PROVE  <<T, r.obj[T]>> \in DOMAIN objects' => objects'[<<T, r.obj[T]>>].parts["meta"] # Empty
    <3>1. CASE Undisturbed
      BY <1>5, <2>2, <3>1 DEF Undisturbed, Running
    <3>2. CASE UNCHANGED vars
      BY <2>2, <3>2 DEF vars, Full
    <3> QED BY <3>1, <3>2
  <2>3. AddKnows(cli[c])' <=>
          (Adding(r) /\ r.pc = "running" =>
            \/ BeforeData(r.calls, T)
            \/ WithData(r.calls, T) /\ r.data = Json[DataText(r)]
            \/ Afterwards(r.calls)
               /\ (<<T, r.obj[T]>> \in DOMAIN objects' => objects'[<<T, r.obj[T]>>].parts["meta"] # Empty))
    BY <1>5 DEF AddKnows, Full, Adding, DataText, BeforeData, WithData, Afterwards
  <2> QED BY <2>1, <2>2, <2>3 DEF AddKnows
<1>6. ASSUME NEW c \in Clients, cli_invoke(c), Keeps(cli[c], cli'[c]) PROVE AddKnows(cli[c])'
  <2> DEFINE r == cli[c]
             s == cli'[c]
  <2>1. PICK T, id, data : T = r.request.type /\ id = r.obj[T] /\ data = Json[DataText(r)]
    OBVIOUS
  <2>2. s.request = r.request
    BY <1>6 DEF Keeps
  <2>3. CASE Adding(r)
    <3>1. \/ Failed(s)
          \/ s.pc = "running" /\ BeforeData(s.calls, T)
          \/ s.pc = "running" /\ WithData(s.calls, T) /\ s.data = data
          \/ s.pc = "running" /\ Afterwards(s.calls) /\ s.obj[T] = id /\ Full(T, id)'
          \/ s.pc = "done" /\ Full(T, id)'
      BY <1>6, <2>1, <2>3, AddMoves DEF AddInv
    <3> DEFINE has(k) == k \in DOMAIN objects' => objects'[k].parts["meta"] # Empty
    <3>2. s.request.type = T /\ DataText(s) = DataText(r)
      BY <2>1, <2>2 DEF DataText
    <3>3. Full(T, id)' <=> has(<<T, id>>)
      BY DEF Full
    <3>4. AddKnows(cli[c])' <=>
            (Adding(s) /\ s.pc = "running" =>
              \/ BeforeData(s.calls, s.request.type)
              \/ WithData(s.calls, s.request.type) /\ s.data = Json[DataText(s)]
              \/ Afterwards(s.calls) /\ has(<<s.request.type, s.obj[s.request.type]>>))
      BY DEF AddKnows, Full, Adding, DataText, BeforeData, WithData, Afterwards
    <3> HIDE DEF s, has
    <3> QED BY <2>1, <3>1, <3>2, <3>3, <3>4 DEF Failed
  <2>4. CASE ~Adding(r)
    BY <2>2, <2>4 DEF AddKnows, Adding, DataText
  <2> QED BY <2>3, <2>4
<1>7. \A c \in Clients : AddKnows(cli[c])'
  <2>1. CASE cli' = cli
    BY <1>5, <2>1
  <2>2. ASSUME NEW c \in Clients, NEW r, cli' = [cli EXCEPT ![c] = r],
               \/ Begun(cli'[c]) \/ Refused(cli'[c]) \/ cli'[c] = NotRun
               \/ cli'[c] = Done(cli[c], "killed")
               \/ cli_invoke(c) /\ Keeps(cli[c], cli'[c])
        PROVE  \A d \in Clients : AddKnows(cli[d])'
    <3>1. \A d \in Clients : d # c => AddKnows(cli[d])'
      BY <1>5, <2>2
    <3>2. CASE Begun(cli'[c]) \/ cli'[c].pc # "running"
      <4>1. \A q : Begun(q) \/ q.pc # "running" => (Adding(q) /\ q.pc = "running" => BeforeData(q.calls, q.request.type))
        BY AddBegins, AddStarts DEF Adding
      <4> QED BY <3>1, <3>2, <4>1 DEF AddKnows, Adding, DataText, BeforeData
    <3>3. CASE cli_invoke(c) /\ Keeps(cli[c], cli'[c])
      BY <1>6, <3>1, <3>3
    <3>4. Refused(cli'[c]) \/ cli'[c] = NotRun \/ cli'[c] = Done(cli[c], "killed") => cli'[c].pc # "running"
      BY DoneEnds, NotRunIsAsked DEF Refused
    <3> QED BY <2>2, <3>2, <3>3, <3>4
  <2> QED BY <1>2, <2>1, <2>2
<1> QED BY <1>1, <1>4, <1>7 DEF AddInv

\* An add of meta data that succeeds leaves none without.
AddsWhole ==
  \A c \in Clients :
    LET T == cli[c].request.type IN
    /\ Running(c) /\ cli[c].request.action = "add"
    /\ Var(c, "data") \in DOMAIN Json /\ Json[Var(c, "data")] # Empty
    /\ cli'[c].pc = "done" /\ cli'[c].exit = "success"
    => LET key == <<T, Obj(c, T)>> IN
       key \in DOMAIN objects' => objects'[key].parts["meta"] # Empty

\* The step in which an add succeeds leaves the object with its meta data.
LEMMA StepAddsWhole == AddInv /\ [Next]_vars => AddsWhole
<1> SUFFICES ASSUME AddInv, [Next]_vars, NEW c \in Clients,
                    Running(c), cli[c].request.action = "add",
                    Var(c, "data") \in DOMAIN Json, Json[Var(c, "data")] # Empty,
                    cli'[c].pc = "done", cli'[c].exit = "success",
                    NEW T, T = cli[c].request.type, NEW id, id = cli[c].obj[T]
             PROVE  <<T, id>> \in DOMAIN objects' => objects'[<<T, id>>].parts["meta"] # Empty
  BY DEF AddsWhole, Obj
<1>1. Adding(cli[c]) /\ AddKnows(cli[c]) /\ WellAsked /\ StoreOK
  BY DEF Adding, Var, DataText, AddInv
<1>2. \/ cli' = cli
      \/ \E d \in Clients :
           /\ \E r : cli' = [cli EXCEPT ![d] = r]
           /\ \/ Begun(cli'[d]) \/ Refused(cli'[d]) \/ cli'[d] = NotRun
              \/ cli'[d] = Done(cli[d], "killed")
              \/ cli_invoke(d) /\ Keeps(cli[d], cli'[d])
  BY StepCases DEF AddInv
<1>3. cli'[c] # cli[c]
  BY DEF Running
<1>4. \/ Begun(cli'[c]) \/ Refused(cli'[c]) \/ cli'[c] = NotRun
      \/ cli'[c] = Done(cli[c], "killed")
      \/ cli_invoke(c) /\ Keeps(cli[c], cli'[c])
  BY <1>1, <1>2, <1>3 DEF WellAsked
<1>5. cli_invoke(c)
  BY <1>4, DoneEnds, NotRunIsAsked DEF Begun, Refused
<1>6. PICK data : data = Json[DataText(cli[c])]
  OBVIOUS
<1>7. Failed(cli'[c]) \/ cli'[c].pc = "running" \/ Full(T, id)'
  BY <1>1, <1>5, <1>6, AddMoves
<1> QED BY <1>7 DEF Failed, Full

\* An add whose data is a dictionary of some attributes (cli_add,
\* cli_add_service_instance, command_add, cli_add_dyndata) and that succeeds leaves
\* an object that has meta data, if it has not been deleted.
THEOREM AddedMeansCompleteHolds == Spec /\ [][Undisturbed]_vars => AddedMeansComplete
<1>1. AddInv /\ [Next]_vars => [AddsWhole]_vars
  BY StepAddsWhole
<1>2. Spec /\ [][Undisturbed]_vars => []AddInv
  BY InitAddInv, StepAddInv, PTL DEF Spec
<1>3. Spec /\ [][Undisturbed]_vars => [][AddsWhole]_vars
  BY <1>1, <1>2, PTL DEF Spec
<1> QED BY <1>3 DEF AddedMeansComplete, AddsWhole
=============================================================================
