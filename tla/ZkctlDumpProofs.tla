-------------------------- MODULE ZkctlDumpProofs --------------------------
(***************************************************************************)
(* placement-plan dump: what it has listed, what is still to come, and     *)
(* that nothing is missing in the end.                                     *)
(***************************************************************************)
EXTENDS ZkctlProofs

\* The first element, and the rest, of a sequence with another one behind it.
LEMMA FirstOfConcat ==
  ASSUME NEW S, NEW p \in Seq(S), NEW q \in Seq(S), p # <<>>
  PROVE  Head(p \o q) = Head(p) /\ Tail(p \o q) = Tail(p) \o q /\ p \o q # <<>>
<1>1. p \o q \in Seq(S) /\ Len(p \o q) = Len(p) + Len(q) /\ Len(p) > 0
  BY ConcatProperties
<1>2. Tail(p) \in Seq(S) /\ Len(Tail(p)) = Len(p) - 1
  BY HeadTailProperties
<1>3. Head(p \o q) = Head(p) /\ p \o q # <<>>
  BY <1>1, ConcatProperties
<1>4. Tail(p \o q) \in Seq(S) /\ Len(Tail(p \o q)) = Len(p) + Len(q) - 1
  BY <1>1, <1>3, HeadTailProperties
<1>5. Tail(p) \o q \in Seq(S) /\ Len(Tail(p) \o q) = Len(p) + Len(q) - 1
  BY <1>2, ConcatProperties
<1>6. \A i \in 1..(Len(p) + Len(q) - 1) : Tail(p \o q)[i] = (Tail(p) \o q)[i]
  BY <1>1, <1>2, <1>3, <1>4, HeadTailProperties, ConcatProperties
<1> QED BY <1>3, <1>4, <1>5, <1>6

\* Sequences of the same length and elements are the same.
LEMMA Same ==
  ASSUME NEW S, NEW p \in Seq(S), NEW q \in Seq(S), Len(p) = Len(q),
         \A i \in 1..Len(p) : p[i] = q[i]
  PROVE  p = q
OBVIOUS

\* Joining short lists.
LEMMA Joined ==
  ASSUME NEW a, NEW b, NEW c, NEW d
  PROVE  <<a, b>> \o <<c, d>> = <<a, b, c, d>> /\ <<a, b, c>> \o <<d>> = <<a, b, c, d>>
<1> DEFINE S == {a, b, c, d}
           all == <<a, b, c, d>>
<1>1. /\ <<a, b>> \in Seq(S) /\ <<c, d>> \in Seq(S) /\ <<a, b, c>> \in Seq(S) /\ <<d>> \in Seq(S)
      /\ all \in Seq(S) /\ Len(all) = 4
      /\ all[1] = a /\ all[2] = b /\ all[3] = c /\ all[4] = d
  OBVIOUS
<1>2. /\ <<a, b>> \o <<c, d>> \in Seq(S) /\ Len(<<a, b>> \o <<c, d>>) = 4
      /\ \A i \in 1..4 : (<<a, b>> \o <<c, d>>)[i] = IF i <= 2 THEN <<a, b>>[i] ELSE <<c, d>>[i - 2]
  <2> HIDE DEF S
  <2> QED BY <1>1, ConcatProperties
<1>3. /\ <<a, b, c>> \o <<d>> \in Seq(S) /\ Len(<<a, b, c>> \o <<d>>) = 4
      /\ \A i \in 1..4 : (<<a, b, c>> \o <<d>>)[i] = IF i <= 3 THEN <<a, b, c>>[i] ELSE <<d>>[i - 3]
  <2> HIDE DEF S
  <2> QED BY <1>1, ConcatProperties
<1>4. \A i \in 1..4 : i = 1 \/ i = 2 \/ i = 3 \/ i = 4
  OBVIOUS
<1>5. \A i \in 1..4 : (<<a, b>> \o <<c, d>>)[i] = all[i]
  BY <1>2, <1>4
<1>6. \A i \in 1..4 : (<<a, b, c>> \o <<d>>)[i] = all[i]
  BY <1>3, <1>4
<1> HIDE DEF S, all
<1>7. <<a, b>> \o <<c, d>> = all
  BY <1>1, <1>2, <1>5, Same
<1>8. <<a, b, c>> \o <<d>> = all
  BY <1>1, <1>3, <1>6, Same
<1> QED BY <1>7, <1>8 DEF all

\* The calls of a dump.  What is listed of the indexes plays no part.
IndexNames == {"objects", "each", "children", "get_all"}
IndexTypes == {"index-type", "index-partition"}
OfIndexes(S) ==
  \A x \in S : /\ x.call \in IndexNames /\ x.type \in IndexTypes /\ x.body \in Seq(S)
               /\ x.call = "children" => x.part \in IndexTypes
GetNode == On("get_all", "slavenode", "meta")
NodeInstances == Children("slavenode", "service-instance")
GetState == On("get_state", "service-instance", "meta")
GetPort == On("get_port", "service-instance", "current-state")
InstanceLoop == Each("service-instance", <<GetState, GetPort>>)
NodeLoop == Each("slavenode", <<GetNode, NodeInstances, InstanceLoop>>)

\* Where a dump can be: still at the indexes, or at a place of its loops.
AtIndexes(calls) == \E S : OfIndexes(S) /\ \E p \in Seq(S) : calls = p \o <<Slavenodes, NodeLoop>>
BetweenNodes == <<NodeLoop>>
AtNode == <<GetNode, NodeInstances, InstanceLoop, NodeLoop>>
AtListing == <<NodeInstances, InstanceLoop, NodeLoop>>
BetweenInstances == <<InstanceLoop, NodeLoop>>
AtState == <<GetState, GetPort, InstanceLoop, NodeLoop>>
AtPort == <<GetPort, InstanceLoop, NodeLoop>>

\* A dump begins with the partitions and their indexes.
LEMMA IndexesFirst == AtIndexes(cli_placement_plan_dump)
<1> DEFINE get == On("get_all", "index-partition", "meta")
           partitions == Each("index-partition", <<get>>)
           list == Children("index-type", "index-partition")
           types == Each("index-type", <<list, partitions>>)
           all == Objects("index-type")
           S == {get, partitions, list, types, all}
           p == <<all, types>>
<1>1. /\ get.call = "get_all" /\ get.type = "index-partition" /\ get.body = <<>>
      /\ partitions.call = "each" /\ partitions.type = "index-partition" /\ partitions.body = <<get>>
      /\ list.call = "children" /\ list.type = "index-type" /\ list.part = "index-partition" /\ list.body = <<>>
      /\ types.call = "each" /\ types.type = "index-type" /\ types.body = <<list, partitions>>
      /\ all.call = "objects" /\ all.type = "index-type" /\ all.body = <<>>
  BY DEF On, CallOn, Each, Children, Objects
<1>2. cli_placement_plan_dump = p \o <<Slavenodes, NodeLoop>>
  BY DEF cli_placement_plan_dump, get_index_partitions, NodeLoop, GetNode, NodeInstances, InstanceLoop,
     get_instance_attrs, GetState, GetPort
<1> HIDE DEF get, partitions, list, types, all
<1>3. OfIndexes(S)
  <2>1. <<>> \in Seq(S) /\ <<get>> \in Seq(S) /\ <<list, partitions>> \in Seq(S)
    OBVIOUS
  <2>2. \A x \in S : x = get \/ x = partitions \/ x = list \/ x = types \/ x = all
    OBVIOUS
  <2> HIDE DEF S
  <2> QED BY <1>1, <2>1, <2>2 DEF OfIndexes, IndexNames, IndexTypes
<1>4. p \in Seq(S)
  OBVIOUS
<1> QED BY <1>2, <1>3, <1>4 DEF AtIndexes

\* The calls of the two loops, over the slave nodes and over the instances of one.
LEMMA LoopCalls ==
  /\ Slavenodes.call = "slavenodes" /\ Slavenodes.type = "slavenode"
  /\ GetNode.call = "get_all" /\ GetNode.type = "slavenode"
  /\ NodeInstances.call = "children" /\ NodeInstances.type = "slavenode" /\ NodeInstances.part = "service-instance"
  /\ GetState.call = "get_state" /\ GetPort.call = "get_port"
  /\ InstanceLoop.call = "each" /\ InstanceLoop.type = "service-instance"
  /\ InstanceLoop.body \o BetweenInstances = AtState
  /\ NodeLoop.call = "each" /\ NodeLoop.type = "slavenode" /\ NodeLoop.body \o BetweenNodes = AtNode
<1>1. InstanceLoop.body = <<GetState, GetPort>> /\ NodeLoop.body = <<GetNode, NodeInstances, InstanceLoop>>
  BY DEF InstanceLoop, NodeLoop, Each, CallOn
<1>2. /\ <<GetState, GetPort>> \o BetweenInstances = AtState
      /\ <<GetNode, NodeInstances, InstanceLoop>> \o BetweenNodes = AtNode
  BY Joined DEF BetweenInstances, AtState, BetweenNodes, AtNode
<1>3. /\ Slavenodes.call = "slavenodes" /\ Slavenodes.type = "slavenode"
      /\ GetNode.call = "get_all" /\ GetNode.type = "slavenode"
      /\ NodeInstances.call = "children" /\ NodeInstances.type = "slavenode"
      /\ NodeInstances.part = "service-instance"
  BY DEF Slavenodes, GetNode, NodeInstances, Children, On, CallOn
<1>4. /\ GetState.call = "get_state" /\ GetPort.call = "get_port"
      /\ InstanceLoop.call = "each" /\ InstanceLoop.type = "service-instance"
      /\ NodeLoop.call = "each" /\ NodeLoop.type = "slavenode"
  BY DEF GetState, GetPort, InstanceLoop, NodeLoop, Each, On, CallOn
<1> QED BY <1>1, <1>2, <1>3, <1>4

\* From one place to the next.
LEMMA LoopPlaces ==
  /\ Head(BetweenNodes) = NodeLoop /\ Tail(BetweenNodes) = <<>>
  /\ Head(AtNode) = GetNode /\ Tail(AtNode) = AtListing
  /\ Head(AtListing) = NodeInstances /\ Tail(AtListing) = BetweenInstances
  /\ Head(BetweenInstances) = InstanceLoop /\ Tail(BetweenInstances) = BetweenNodes
  /\ Head(AtState) = GetState /\ Tail(AtState) = AtPort
  /\ Head(AtPort) = GetPort /\ Tail(AtPort) = BetweenInstances
  /\ <<>> \notin {BetweenNodes, AtNode, AtListing, BetweenInstances, AtState, AtPort}
BY DEF BetweenNodes, AtNode, AtListing, BetweenInstances, AtState, AtPort

\* From the calls for the indexes a dump comes to other such calls, or to the list of
\* the slave nodes.
LEMMA IndexesNext ==
  ASSUME NEW calls, AtIndexes(calls)
  PROVE  /\ calls # <<>>
         /\ \/ Head(calls) = Slavenodes /\ Tail(calls) = BetweenNodes
            \/ /\ Head(calls).call \in IndexNames /\ Head(calls).type \in IndexTypes
               /\ Head(calls).call = "children" => Head(calls).part \in IndexTypes
               /\ Tail(calls) # <<>> /\ AtIndexes(Tail(calls)) /\ AtIndexes(Head(calls).body \o calls)
<1> DEFINE rest == <<Slavenodes, NodeLoop>>
<1>0. PICK S : OfIndexes(S) /\ \E p \in Seq(S) : calls = p \o rest
  BY DEF AtIndexes
<1>1. PICK p \in Seq(S) : calls = p \o rest
  BY <1>0
<1> DEFINE A == S \cup {Slavenodes, NodeLoop}
<1>2. p \in Seq(A) /\ rest \in Seq(A) /\ rest # <<>> /\ Head(rest) = Slavenodes /\ Tail(rest) = BetweenNodes
  BY DEF BetweenNodes
<1> HIDE DEF rest
<1>3. CASE p = <<>>
  BY <1>1, <1>2, <1>3, ConcatEmptySeq
<1>4. CASE p # <<>>
  <2> DEFINE x == Head(p)
  <2>1. Head(calls) = x /\ Tail(calls) = Tail(p) \o rest /\ calls # <<>>
    <3> HIDE DEF A
    <3> QED BY <1>1, <1>2, <1>4, FirstOfConcat
  <2>2. x \in S /\ Tail(p) \in Seq(S)
    BY <1>4
  <2>3. x.body \in Seq(S) /\ x.body \in Seq(A)
    BY <1>0, <2>2 DEF OfIndexes
  <2>4. x.body \o p \in Seq(S)
    BY <2>3, ConcatProperties
  <2>5. x.body \o calls = (x.body \o p) \o rest
    <3> DEFINE b == x.body
    <3> HIDE DEF A, b
    <3>1. b \in Seq(A) /\ p \in Seq(A) /\ rest \in Seq(A)
      BY <1>2, <2>3 DEF b
    <3>2. (b \o p) \o rest = b \o (p \o rest)
      BY <3>1, ConcatAssociative
    <3> QED BY <1>1, <3>2 DEF b
  <2>6. Tail(calls) # <<>>
    <3>1. Tail(p) \in Seq(A)
      BY <2>2
    <3> HIDE DEF A
    <3> QED BY <1>2, <2>1, <3>1, ConcatProperties, ConcatEqualIffEmpty
  <2>7. AtIndexes(Tail(calls)) /\ AtIndexes(x.body \o calls)
    BY <1>0, <2>1, <2>2, <2>4, <2>5 DEF AtIndexes, rest
  <2> QED BY <1>0, <2>1, <2>2, <2>6, <2>7 DEF OfIndexes
<1> QED BY <1>3, <1>4

\* What has been found of a type; where the instances are.
FoundBy(r, type) == IF type \in DOMAIN r.found THEN r.found[type] ELSE {}
Nodes == [id \in All("service-instance") |-> objects[<<"service-instance", id>>].node]

\* A listing adds to what has been found, and the calls go on.
LEMMA ListingMoves ==
  ASSUME WellAsked, "fail" \notin faults, NEW c \in Clients, NEW can, NEW type, NEW ids,
         List(c, can, type, ids), Tail(cli[c].calls) # <<>>
  PROVE  LET r == cli[c]  s == cli'[c] IN
         /\ objects' = objects
         /\ \/ ~can /\ Failed(s)
            \/ /\ can /\ s.pc = r.pc /\ s.calls = Tail(r.calls) /\ s.obj = r.obj /\ s.placed = r.placed
               /\ FoundBy(s, type) = FoundBy(r, type) \cup ids
               /\ \A t : t # type => FoundBy(s, t) = FoundBy(r, t)
<1> DEFINE r == cli[c]
           s == cli'[c]
           l == Listed(c, type, ids)
           one == type :> (Found(c, type) \cup ids)
           old == r.found
<1>1. DOMAIN r = CliFields
  BY DEF WellAsked, Asked
<1>2. objects' = objects /\ ((can /\ s = Become(l, Tail(l.calls))) \/ (~can /\ s = Fail(r)))
  BY CallOutcomes DEF List, Continue
<1>3. /\ DOMAIN l = CliFields /\ l.pc = r.pc /\ l.calls = r.calls /\ l.obj = r.obj /\ l.placed = r.placed
      /\ l.found = one @@ old
  BY <1>1 DEF Listed, CliFields
<1>4. /\ DOMAIN one = {type} /\ one[type] = Found(c, type) \cup ids
      /\ Found(c, type) = FoundBy(r, type)
  BY OfOne DEF Found, FoundBy
<1>5. /\ DOMAIN (one @@ old) = DOMAIN one \cup DOMAIN old
      /\ \A k \in DOMAIN one : (one @@ old)[k] = one[k]
      /\ \A k \in DOMAIN old \ DOMAIN one : (one @@ old)[k] = old[k]
  <2> HIDE DEF one, old
  <2> QED BY OfBoth
<1> HIDE DEF l, one
<1>6. FoundBy(l, type) = FoundBy(r, type) \cup ids /\ \A t : t # type => FoundBy(l, t) = FoundBy(r, t)
  BY <1>3, <1>4, <1>5 DEF FoundBy
<1>7. CASE can
  <2> DEFINE b == Become(l, Tail(l.calls))
  <2>1. b.pc = l.pc /\ b.calls = Tail(r.calls) /\ b.obj = l.obj /\ b.found = l.found /\ b.placed = l.placed
    BY <1>3, Continued
  <2>2. s = b
    BY <1>2, <1>7
  <2> HIDE DEF b, s, r
  <2> QED BY <1>2, <1>3, <1>6, <1>7, <2>1, <2>2 DEF FoundBy, r, s
<1>8. CASE ~can
  BY <1>2, <1>8, FailFails
<1> QED BY <1>7, <1>8

\* A loop takes one of the objects found, or goes on when there are none.
LEMMA LoopMoves ==
  ASSUME WellAsked, NEW c \in Clients, each(c)
  PROVE  LET r == cli[c]  s == cli'[c]  T == Type(c) IN
         /\ objects' = objects
         /\ \/ FoundBy(r, T) = {} /\ s = Become(r, Tail(r.calls))
            \/ \E id \in FoundBy(r, T) :
                 /\ s.pc = r.pc /\ s.calls = Head(r.calls).body \o r.calls /\ s.placed = r.placed
                 /\ T \in DOMAIN s.obj /\ s.obj[T] = id
                 /\ \A t \in DOMAIN r.obj : t # T => t \in DOMAIN s.obj /\ s.obj[t] = r.obj[t]
                 /\ FoundBy(s, T) = FoundBy(r, T) \ {id}
                 /\ \A t : t # T => FoundBy(s, t) = FoundBy(r, t)
<1> DEFINE r == cli[c]
           T == Type(c)
           g(id) == Got(r, T, id)
           into(id) == [g(id) EXCEPT !.found[T] = @ \ {id}, !.calls = Head(@).body \o @]
<1>1. DOMAIN r = CliFields /\ Found(c, T) = FoundBy(r, T)
  BY DEF WellAsked, Asked, Found, FoundBy
<1>2. \/ Found(c, T) = {} /\ Here(c, Continue(r))
      \/ \E id \in Found(c, T) : Here(c, into(id))
  BY DEF each
<1>3. CASE Found(c, T) = {} /\ Here(c, Continue(r))
  BY <1>1, <1>3, OwnStep DEF Continue
<1>4. ASSUME NEW id \in Found(c, T), Here(c, into(id))
      PROVE  /\ objects' = objects /\ cli'[c].pc = r.pc
             /\ cli'[c].calls = Head(r.calls).body \o r.calls /\ cli'[c].placed = r.placed
             /\ T \in DOMAIN cli'[c].obj /\ cli'[c].obj[T] = id
             /\ \A t \in DOMAIN r.obj : t # T => t \in DOMAIN cli'[c].obj /\ cli'[c].obj[t] = r.obj[t]
             /\ FoundBy(cli'[c], T) = FoundBy(r, T) \ {id}
             /\ \A t : t # T => FoundBy(cli'[c], t) = FoundBy(r, t)
  <2> DEFINE one == T :> id
             old == r.obj
             s == into(id)
  <2>1. cli'[c] = s /\ objects' = objects
    BY <1>4, OwnStep
  <2>2. /\ s.pc = r.pc /\ s.calls = Head(r.calls).body \o r.calls /\ s.placed = r.placed
        /\ s.obj = one @@ old /\ s.found = [r.found EXCEPT ![T] = @ \ {id}]
    BY <1>1 DEF Got, CliFields
  <2>3. DOMAIN one = {T} /\ one[T] = id
    BY OfOne
  <2>4. /\ DOMAIN (one @@ old) = DOMAIN one \cup DOMAIN old
        /\ \A k \in DOMAIN one : (one @@ old)[k] = one[k]
        /\ \A k \in DOMAIN old \ DOMAIN one : (one @@ old)[k] = old[k]
    <3> HIDE DEF one, old
    <3> QED BY OfBoth
  <2>5. T \in DOMAIN r.found
    BY <1>1, <1>4 DEF FoundBy
  <2> HIDE DEF s, one
  <2>6. FoundBy(s, T) = FoundBy(r, T) \ {id} /\ \A t : t # T => FoundBy(s, t) = FoundBy(r, t)
    BY <2>2, <2>5 DEF FoundBy
  <2> QED BY <2>1, <2>2, <2>3, <2>4, <2>6
<1> QED BY <1>1, <1>2, <1>3, <1>4

\* A placement-plan dump that is not restricted to an idc or a group.
Dumping(r) == r.request.type = "placement-plan" /\ \A d \in {"idc", "group"} : r.request.vars[d \o "-id"] = ""

AtNodes == {AtNode, AtListing, BetweenInstances, AtState, AtPort}
ListedAt == {BetweenInstances, AtState, AtPort}
AtInstance == {AtState, AtPort}

\* The instances listed of the node it is at, and not yet dumped or skipped.
InHand(r) ==
  FoundBy(r, "service-instance")
  \cup (IF r.calls \in AtInstance THEN {r.obj["service-instance"]} ELSE {})

\* An instance on that node will still be looked at: its node is to come, or it
\* is to be listed, or it is in hand.
Coming(r, node, id) ==
  \/ node \in FoundBy(r, "slavenode")
  \/ /\ r.calls \in AtNodes /\ r.obj["slavenode"] = node
     /\ r.calls \in {AtNode, AtListing} \/ id \in InHand(r)

RightlyPlaced(r, nodes) ==
  \A place \in r.placed : place[2] \in DOMAIN nodes => nodes[place[2]] = place[1]

Starting(r) ==
  AtIndexes(r.calls) /\ FoundBy(r, "slavenode") = {} /\ FoundBy(r, "service-instance") = {} /\ r.placed = {}

Looping(r, stated, nodes) ==
  /\ r.calls \in {BetweenNodes} \cup AtNodes
  /\ r.calls \in AtNodes => "slavenode" \in DOMAIN r.obj
  /\ r.calls \in AtInstance => "service-instance" \in DOMAIN r.obj
  /\ r.calls \notin ListedAt => FoundBy(r, "service-instance") = {}
  /\ \A id \in InHand(r) \cap DOMAIN nodes : nodes[id] = r.obj["slavenode"]
  /\ \A id \in r.before \cap stated : <<nodes[id], id>> \in r.placed \/ Coming(r, nodes[id], id)

\* What holds of a dump while it runs and when it has succeeded, for the
\* instances that have a state and the nodes of all instances.
DumpKnows(r, stated, nodes) ==
  Dumping(r) =>
    /\ r.pc = "running" => RightlyPlaced(r, nodes) /\ (Starting(r) \/ Looping(r, stated, nodes))
    /\ r.pc = "done" /\ r.exit = "success" =>
         RightlyPlaced(r, nodes) /\ \A id \in r.before \cap stated : <<nodes[id], id>> \in r.placed

\* The instances that a dump has met.
Met(r) ==
  FoundBy(r, "service-instance") \cup {place[2] : place \in r.placed}
  \cup {r.obj[t] : t \in {"service-instance"} \cap DOMAIN r.obj}

\* The others may do what they like, except bring an instance back that is gone.
LEMMA DumpStill ==
  ASSUME NEW r, NEW stated, NEW nodes, NEW later, NEW nodesLater,
         stated \subseteq DOMAIN nodes, later \subseteq DOMAIN nodesLater,
         \A id \in DOMAIN nodes \cap DOMAIN nodesLater : nodesLater[id] = nodes[id],
         Dumping(r) => r.before \cap later \subseteq stated /\ Met(r) \cap DOMAIN nodesLater \subseteq DOMAIN nodes,
         DumpKnows(r, stated, nodes)
  PROVE  DumpKnows(r, later, nodesLater)
<1> SUFFICES ASSUME Dumping(r) PROVE DumpKnows(r, later, nodesLater)
  BY DEF DumpKnows
<1>1. RightlyPlaced(r, nodes) => RightlyPlaced(r, nodesLater)
  BY DEF RightlyPlaced, Met
<1>2. \A id \in r.before \cap later : id \in r.before \cap stated /\ nodesLater[id] = nodes[id]
  OBVIOUS
<1>3. ASSUME Looping(r, stated, nodes) PROVE Looping(r, later, nodesLater)
  <2>1. InHand(r) \subseteq Met(r)
    BY <1>3 DEF Looping, InHand, Met
  <2>2. \A id \in InHand(r) \cap DOMAIN nodesLater : nodesLater[id] = r.obj["slavenode"]
    BY <1>3, <2>1 DEF Looping
  <2> QED BY <1>2, <1>3, <2>2 DEF Looping
<1> QED BY <1>1, <1>2, <1>3 DEF DumpKnows

\* No two places in the loops are the same.
LEMMA PlacesDiffer ==
  /\ BetweenNodes \notin AtNodes
  /\ AtNode \notin ListedAt /\ AtListing \notin ListedAt /\ AtNode # AtListing
  /\ BetweenInstances \notin AtInstance /\ AtState # AtPort
  /\ AtInstance \subseteq ListedAt /\ ListedAt \subseteq AtNodes
  /\ AtNode \in AtNodes /\ AtListing \in AtNodes /\ BetweenInstances \in ListedAt
  /\ AtState \in AtInstance /\ AtPort \in AtInstance
  /\ BetweenNodes \notin ListedAt /\ BetweenNodes \notin AtInstance
  /\ AtNode \notin AtInstance /\ AtListing \notin AtInstance
  /\ BetweenInstances \notin {AtNode, AtListing}
<1>1. /\ Head(BetweenNodes).call = "each" /\ Head(BetweenNodes).type = "slavenode"
      /\ Head(AtNode).call = "get_all" /\ Head(AtListing).call = "children"
      /\ Head(BetweenInstances).call = "each" /\ Head(BetweenInstances).type = "service-instance"
      /\ Head(AtState).call = "get_state" /\ Head(AtPort).call = "get_port"
  BY LoopPlaces, LoopCalls
<1> QED BY <1>1 DEF AtNodes, ListedAt, AtInstance

\* Reading goes on with the calls or fails.
LEMMA GetAllMoves ==
  ASSUME WellAsked, "fail" \notin faults, NEW c \in Clients, get_all(c), Tail(cli[c].calls) # <<>>
  PROVE  LET r == cli[c]  s == cli'[c] IN
         /\ objects' = objects
         /\ \/ Failed(s)
            \/ /\ s.pc = r.pc /\ s.calls = Tail(r.calls) /\ s.obj = r.obj /\ s.placed = r.placed
               /\ s.found = r.found
<1>1. DOMAIN cli[c] = CliFields
  BY DEF WellAsked, Asked
<1>2. objects' = objects /\ (cli'[c] = Become(cli[c], Tail(cli[c].calls)) \/ Failed(cli'[c]))
  BY CallOutcomes, FailFails DEF get_all, Read, Continue
<1> QED BY <1>1, <1>2, Continued

\* The instances of a node are listed.
LEMMA InstancesListed ==
  ASSUME WellAsked, "fail" \notin faults, NEW c \in Clients, children(c), Tail(cli[c].calls) # <<>>,
         NEW type, Part(c) = type
  PROVE  /\ objects' = objects
         /\ \/ Failed(cli'[c])
            \/ /\ cli'[c].pc = cli[c].pc /\ cli'[c].calls = Tail(cli[c].calls)
               /\ cli'[c].obj = cli[c].obj /\ cli'[c].placed = cli[c].placed
               /\ FoundBy(cli'[c], type)
                    = FoundBy(cli[c], type) \cup Ids(ChildrenOf(Type(c), Obj(c, Type(c)), type))
               /\ \A t : t # type => FoundBy(cli'[c], t) = FoundBy(cli[c], t)
<1>1. \E can, ids : List(c, can, type, ids) /\ ids = Ids(ChildrenOf(Type(c), Obj(c, Type(c)), type))
  BY DEF children
<1>2. PICK can, ids : List(c, can, type, ids) /\ ids = Ids(ChildrenOf(Type(c), Obj(c, Type(c)), type))
  BY <1>1
<1>3. LET r == cli[c]  s == cli'[c] IN
         /\ objects' = objects
         /\ \/ ~can /\ Failed(s)
            \/ /\ can /\ s.pc = r.pc /\ s.calls = Tail(r.calls) /\ s.obj = r.obj /\ s.placed = r.placed
               /\ FoundBy(s, type) = FoundBy(r, type) \cup ids
               /\ \A t : t # type => FoundBy(s, t) = FoundBy(r, t)
  BY <1>2, ListingMoves
<1> QED BY <1>2, <1>3

\* All slave nodes are listed, unless an idc or a group restricts them.
LEMMA SlavenodesListed ==
  ASSUME WellAsked, "fail" \notin faults, NEW c \in Clients, slavenodes(c), Tail(cli[c].calls) # <<>>,
         {d \in {"idc", "group"} : Restricts(c, d)} = {},
         NEW type, type = "slavenode"
  PROVE  /\ objects' = objects
         /\ \/ Failed(cli'[c])
            \/ /\ cli'[c].pc = cli[c].pc /\ cli'[c].calls = Tail(cli[c].calls)
               /\ cli'[c].obj = cli[c].obj /\ cli'[c].placed = cli[c].placed
               /\ FoundBy(cli'[c], type) = FoundBy(cli[c], type) \cup All(type)
               /\ \A t : t # type => FoundBy(cli'[c], t) = FoundBy(cli[c], t)
<1>1. \E can, ids : List(c, can, type, ids) /\ ids = All(type)
  BY DEF slavenodes
<1>2. PICK can, ids : List(c, can, type, ids) /\ ids = All(type)
  BY <1>1
<1>3. LET r == cli[c]  s == cli'[c] IN
         /\ objects' = objects
         /\ \/ ~can /\ Failed(s)
            \/ /\ can /\ s.pc = r.pc /\ s.calls = Tail(r.calls) /\ s.obj = r.obj /\ s.placed = r.placed
               /\ FoundBy(s, type) = FoundBy(r, type) \cup ids
               /\ \A t : t # type => FoundBy(s, t) = FoundBy(r, t)
  BY <1>2, ListingMoves
<1> QED BY <1>2, <1>3

\* At the indexes a dump finds no slave nodes and no instances.
LEMMA StartingMoves ==
  ASSUME WellAsked, "fail" \notin faults, NEW c \in Clients, cli_invoke(c),
         Starting(cli[c]), Head(cli[c].calls) # Slavenodes
  PROVE  objects' = objects /\ (Failed(cli'[c]) \/ (cli'[c].pc = "running" /\ Starting(cli'[c])))
<1> DEFINE r == cli[c]
           s == cli'[c]
           x == Head(r.calls)
<1>1. /\ x.call \in IndexNames /\ x.type \in IndexTypes /\ (x.call = "children" => x.part \in IndexTypes)
      /\ Tail(r.calls) # <<>> /\ AtIndexes(Tail(r.calls)) /\ AtIndexes(x.body \o r.calls)
  BY IndexesNext DEF Starting
<1>2. \A t \in IndexTypes : t # "slavenode" /\ t # "service-instance"
  BY DEF IndexTypes
<1>3. r.pc = "running" /\ DOMAIN r = CliFields
  BY WhichCall DEF Running, WellAsked, Asked
<1>4. ASSUME objects' = objects, s.pc = r.pc, s.placed = r.placed,
             s.calls = Tail(r.calls) \/ s.calls = x.body \o r.calls,
             FoundBy(s, "slavenode") = FoundBy(r, "slavenode"),
             FoundBy(s, "service-instance") = FoundBy(r, "service-instance")
      PROVE  objects' = objects /\ s.pc = "running" /\ Starting(s)
  BY <1>1, <1>3, <1>4 DEF Starting
<1>5. ASSUME NEW can, NEW type \in IndexTypes, NEW ids, List(c, can, type, ids)
      PROVE  objects' = objects /\ (Failed(s) \/ (s.pc = "running" /\ Starting(s)))
  <2>1. /\ objects' = objects
        /\ \/ Failed(s)
           \/ /\ s.pc = r.pc /\ s.calls = Tail(r.calls) /\ s.placed = r.placed
              /\ \A t : t # type => FoundBy(s, t) = FoundBy(r, t)
    BY <1>1, <1>5, ListingMoves
  <2> QED BY <1>2, <1>4, <2>1
<1>6. CASE x.call = "objects"
  <2>1. List(c, TRUE, x.type, All(x.type))
    BY <1>6, WhichCall DEF Objects_of, Type
  <2> QED BY <1>1, <1>5, <2>1
<1>7. CASE x.call = "children"
  <2>1. \E can, ids : List(c, can, x.part, ids)
    BY <1>7, WhichCall DEF children, Part
  <2>2. PICK can, ids : List(c, can, x.part, ids)
    BY <2>1
  <2> QED BY <1>1, <1>7, <1>5, <2>2
<1>8. CASE x.call = "get_all"
  <2>1. get_all(c)
    BY <1>8, WhichCall
  <2>2. s.found = r.found => FoundBy(s, "slavenode") = FoundBy(r, "slavenode")
                             /\ FoundBy(s, "service-instance") = FoundBy(r, "service-instance")
    BY DEF FoundBy
  <2> QED BY <1>1, <1>4, <2>1, <2>2, GetAllMoves
<1>9. CASE x.call = "each"
  <2>1. each(c)
    BY <1>9, WhichCall
  <2>2. objects' = objects
    BY <2>1, LoopMoves
  <2>3. CASE s = Become(r, Tail(r.calls))
    <3>1. s.pc = r.pc /\ s.calls = Tail(r.calls) /\ s.found = r.found /\ s.placed = r.placed
      BY <1>1, <1>3, <2>3, Continued
    <3> QED BY <1>4, <2>2, <3>1 DEF FoundBy
  <2>4. CASE s # Become(r, Tail(r.calls))
    <3>1. /\ s.pc = r.pc /\ s.calls = x.body \o r.calls /\ s.placed = r.placed
          /\ \A t : t # Type(c) => FoundBy(s, t) = FoundBy(r, t)
      BY <2>1, <2>4, LoopMoves
    <3> QED BY <1>1, <1>2, <1>4, <2>2, <3>1 DEF Type
  <2> QED BY <2>3, <2>4
<1> QED BY <1>1, <1>6, <1>7, <1>8, <1>9 DEF IndexNames

\* An instance that has a state is one of the cluster.
LEMMA StatedAre ==
  /\ Stated \subseteq DOMAIN Nodes
  /\ DOMAIN Nodes = All("service-instance")
  /\ \A id \in DOMAIN Nodes : Nodes[id] = objects[<<"service-instance", id>>].node
BY DEF Stated, Nodes

\* The objects of a type are those that exist.
LEMMA AllExist ==
  ASSUME StoreOK, NEW type
  PROVE  \A id : id \in All(type) <=> Exists(type, id)
<1>1. \A id : id \in All(type) <=> \E k \in DOMAIN objects : k[1] = type /\ k[2] = id
  BY DEF All, Ids
<1>2. \A k \in DOMAIN objects : k = <<k[1], k[2]>>
  BY DEF StoreOK
<1>3. \A id : <<type, id>>[1] = type /\ <<type, id>>[2] = id
  OBVIOUS
<1> QED BY <1>1, <1>2, <1>3 DEF Exists

\* What is listed of a node are the instances on it.
LEMMA OnNode ==
  ASSUME StoreOK, NEW node
  PROVE  \A id : id \in Ids(ChildrenOf("slavenode", node, "service-instance"))
                 <=> id \in DOMAIN Nodes /\ Nodes[id] = node
<1>1. \A id : id \in Ids(ChildrenOf("slavenode", node, "service-instance"))
              <=> \E k \in DOMAIN objects : k[1] = "service-instance" /\ k[2] = id /\ objects[k].node = node
  BY DEF Ids, ChildrenOf
<1>2. \A k \in DOMAIN objects : k = <<k[1], k[2]>>
  BY DEF StoreOK
<1>3. \A id : <<"service-instance", id>>[1] = "service-instance" /\ <<"service-instance", id>>[2] = id
  OBVIOUS
<1>4. \A id : id \in Ids(ChildrenOf("slavenode", node, "service-instance"))
              <=> Exists("service-instance", id) /\ objects[<<"service-instance", id>>].node = node
  BY <1>1, <1>2, <1>3 DEF Exists
<1> QED BY <1>4, AllExist, StatedAre

\* Every instance that has a state is on a slave node that is there.  A dump
\* goes through the slave nodes to find the instances, and misses the others.
NodesThere == \A id \in Stated : Exists("slavenode", Nodes[id])

\* The slave nodes are listed, all of them.
LEMMA SlavenodesMove ==
  ASSUME WellAsked, StoreOK, NodesThere, "fail" \notin faults, NEW c \in Clients, cli_invoke(c),
         Dumping(cli[c]), Starting(cli[c]), Head(cli[c].calls) = Slavenodes, Keeps(cli[c], cli'[c])
  PROVE  /\ objects' = objects
         /\ Failed(cli'[c])
            \/ (RightlyPlaced(cli'[c], Nodes) /\ cli'[c].pc = "running" /\ Looping(cli'[c], Stated, Nodes))
<1> DEFINE r == cli[c]
           s == cli'[c]
<1>1. Tail(r.calls) = BetweenNodes /\ BetweenNodes # <<>>
  <2>1. ~(Head(r.calls).call \in IndexNames)
    BY LoopCalls DEF IndexNames
  <2> QED BY <2>1, IndexesNext, LoopPlaces DEF Starting
<1>2. slavenodes(c) /\ r.pc = "running"
  BY WhichCall, LoopCalls DEF Running
<1>3. {d \in {"idc", "group"} : Restricts(c, d)} = {}
  BY DEF Dumping, Restricts, Var
<1> DEFINE type == "slavenode"
<1>4. Tail(r.calls) # <<>> /\ type = "slavenode"
  BY <1>1
<1> HIDE DEF type
<1>5. /\ objects' = objects
      /\ \/ Failed(s)
         \/ /\ s.pc = r.pc /\ s.calls = Tail(r.calls) /\ s.placed = r.placed
            /\ FoundBy(s, type) = FoundBy(r, type) \cup All(type)
            /\ \A t : t # type => FoundBy(s, t) = FoundBy(r, t)
  BY <1>2, <1>3, <1>4, SlavenodesListed
<1>7. /\ objects' = objects
      /\ \/ Failed(s)
         \/ /\ s.pc = r.pc /\ s.calls = BetweenNodes /\ s.placed = r.placed
            /\ FoundBy(s, "slavenode") = FoundBy(r, "slavenode") \cup All("slavenode")
            /\ FoundBy(s, "service-instance") = FoundBy(r, "service-instance")
  <2> HIDE DEF s, r
  <2> QED BY <1>1, <1>4, <1>5
<1>6. ASSUME s.pc = r.pc, s.calls = BetweenNodes, s.placed = r.placed,
             FoundBy(s, "slavenode") = FoundBy(r, "slavenode") \cup All("slavenode"),
             FoundBy(s, "service-instance") = FoundBy(r, "service-instance")
      PROVE  RightlyPlaced(s, Nodes) /\ s.pc = "running" /\ Looping(s, Stated, Nodes)
  <2>1. \A id \in Stated : Nodes[id] \in FoundBy(s, "slavenode")
    BY <1>6, AllExist DEF NodesThere
  <2>2. InHand(s) = {} /\ s.placed = {}
    BY <1>6, PlacesDiffer DEF InHand, Starting
  <2> QED BY <1>2, <1>6, <2>1, <2>2, PlacesDiffer DEF Looping, Coming, RightlyPlaced, Starting
<1> QED BY <1>6, <1>7

\* One step of the loops.
LEMMA LoopingMoves ==
  ASSUME WellAsked, StoreOK, "fail" \notin faults, NEW c \in Clients, cli_invoke(c), Keeps(cli[c], cli'[c]),
         RightlyPlaced(cli[c], Nodes), Looping(cli[c], Stated, Nodes)
  PROVE  /\ objects' = objects
         /\ \/ Failed(cli'[c])
            \/ RightlyPlaced(cli'[c], Nodes) /\ cli'[c].pc = "running" /\ Looping(cli'[c], Stated, Nodes)
            \/ /\ RightlyPlaced(cli'[c], Nodes) /\ cli'[c].pc = "done"
               /\ \A id \in cli'[c].before \cap Stated : <<Nodes[id], id>> \in cli'[c].placed
<1> DEFINE r == cli[c]
           s == cli'[c]
           nodes == Nodes
           stated == Stated
           Goal == /\ objects' = objects
                   /\ \/ Failed(s)
                      \/ RightlyPlaced(s, nodes) /\ s.pc = "running" /\ Looping(s, stated, nodes)
                      \/ /\ RightlyPlaced(s, nodes) /\ s.pc = "done"
                         /\ \A id \in s.before \cap stated : <<nodes[id], id>> \in s.placed
<1>1. r.pc = "running" /\ DOMAIN r = CliFields /\ s.before = r.before
  BY WhichCall DEF Running, WellAsked, Asked, Keeps
<1>2. stated \subseteq DOMAIN nodes
  BY StatedAre
<1>3. RightlyPlaced(r, nodes) /\ Looping(r, stated, nodes)
  OBVIOUS
<1> HIDE DEF nodes, stated
<1>4. CASE r.calls = BetweenNodes
  <2>1. each(c) /\ Type(c) = "slavenode"
    BY <1>4, WhichCall, LoopCalls, LoopPlaces DEF Type
  <2>2. FoundBy(r, "service-instance") = {} /\ InHand(r) = {}
    BY <1>3, <1>4, PlacesDiffer DEF Looping, InHand
  <2>3. objects' = objects
    BY <2>1, LoopMoves
  <2>4. CASE FoundBy(r, "slavenode") = {}
    <3>1. s = Become(r, <<>>)
      BY <1>4, <2>1, <2>4, LoopMoves, LoopPlaces
    <3>2. s.pc = "done" /\ s.placed = r.placed
      BY <1>1, <3>1, Onward
    <3>3. \A id \in r.before \cap stated : <<nodes[id], id>> \in r.placed
      BY <1>3, <1>4, <2>4, PlacesDiffer DEF Looping, Coming
    <3> QED BY <1>1, <1>3, <2>3, <3>2, <3>3 DEF RightlyPlaced, nodes, stated
  <2>5. CASE FoundBy(r, "slavenode") # {}
    <3>1. PICK node \in FoundBy(r, "slavenode") :
            /\ s.pc = r.pc /\ s.calls = NodeLoop.body \o r.calls /\ s.placed = r.placed
            /\ "slavenode" \in DOMAIN s.obj /\ s.obj["slavenode"] = node
            /\ FoundBy(s, "slavenode") = FoundBy(r, "slavenode") \ {node}
            /\ FoundBy(s, "service-instance") = FoundBy(r, "service-instance")
      BY <1>4, <2>1, <2>5, LoopMoves, LoopPlaces
    <3>2. s.calls = AtNode
      BY <1>4, <3>1, LoopCalls
    <3>3. InHand(s) = {}
      BY <2>2, <3>1, <3>2, PlacesDiffer DEF InHand
    <3>4. \A id \in s.before \cap stated : <<nodes[id], id>> \in s.placed \/ Coming(s, nodes[id], id)
      <4>1. \A id \in r.before \cap stated : <<nodes[id], id>> \in r.placed \/ nodes[id] \in FoundBy(r, "slavenode")
        BY <1>3, <1>4, PlacesDiffer DEF Looping, Coming
      <4> QED BY <1>1, <3>1, <3>2, <4>1, PlacesDiffer DEF Coming
    <3>5. Looping(s, stated, nodes)
      BY <2>2, <3>1, <3>2, <3>3, <3>4, PlacesDiffer DEF Looping
    <3> QED BY <1>1, <1>3, <2>3, <3>1, <3>5 DEF RightlyPlaced, nodes, stated
  <2> QED BY <2>4, <2>5
<1>5. CASE r.calls = AtNode
  <2>1. get_all(c) /\ Tail(r.calls) = AtListing /\ AtListing # <<>>
    BY <1>5, WhichCall, LoopCalls, LoopPlaces
  <2>2. /\ objects' = objects
        /\ \/ Failed(s)
           \/ s.pc = r.pc /\ s.calls = AtListing /\ s.obj = r.obj /\ s.placed = r.placed /\ s.found = r.found
    BY <2>1, GetAllMoves
  <2>3. ASSUME s.pc = r.pc, s.calls = AtListing, s.obj = r.obj, s.placed = r.placed, s.found = r.found
        PROVE  RightlyPlaced(s, nodes) /\ s.pc = "running" /\ Looping(s, stated, nodes)
    <3>1. \A t : FoundBy(s, t) = FoundBy(r, t)
      BY <2>3 DEF FoundBy
    <3>2. InHand(s) = {} /\ InHand(r) = {}
      BY <1>3, <1>5, <2>3, <3>1, PlacesDiffer DEF InHand, Looping
    <3>3. \A node, id : Coming(r, node, id) => Coming(s, node, id)
      BY <1>5, <2>3, <3>1, PlacesDiffer DEF Coming
    <3> QED BY <1>1, <1>3, <1>5, <2>3, <3>1, <3>2, <3>3, PlacesDiffer DEF Looping, RightlyPlaced
  <2> QED BY <2>2, <2>3 DEF nodes, stated
<1>6. CASE r.calls = AtListing
  <2> DEFINE node == r.obj["slavenode"]
  <2>1. children(c) /\ Tail(r.calls) = BetweenInstances /\ BetweenInstances # <<>>
        /\ Type(c) = "slavenode" /\ Part(c) = "service-instance"
    BY <1>6, WhichCall, LoopCalls, LoopPlaces DEF Type, Part
  <2> DEFINE type == "service-instance"
             ids == Ids(ChildrenOf("slavenode", node, type))
  <2>2. Tail(r.calls) # <<>> /\ Part(c) = type
    BY <2>1
  <2>11. Ids(ChildrenOf(Type(c), Obj(c, Type(c)), type)) = ids
    BY <2>1 DEF Obj
  <2>12. children(c)
    BY <2>1
  <2> HIDE DEF type
  <2>3. /\ objects' = objects
        /\ \/ Failed(s)
           \/ /\ s.pc = r.pc /\ s.calls = Tail(r.calls) /\ s.obj = r.obj /\ s.placed = r.placed
              /\ FoundBy(s, type) = FoundBy(r, type) \cup Ids(ChildrenOf(Type(c), Obj(c, Type(c)), type))
              /\ \A t : t # type => FoundBy(s, t) = FoundBy(r, t)
    BY <2>2, <2>12, InstancesListed, SMTT(30)
  <2> HIDE DEF ids
  <2>10. /\ objects' = objects
         /\ \/ Failed(s)
            \/ /\ s.pc = r.pc /\ s.calls = BetweenInstances /\ s.obj = r.obj /\ s.placed = r.placed
               /\ FoundBy(s, "service-instance") = FoundBy(r, "service-instance") \cup ids
               /\ FoundBy(s, "slavenode") = FoundBy(r, "slavenode")
    <3> HIDE DEF s, r
    <3> QED BY <2>1, <2>11, <2>3 DEF type
  <2>4. \A id : id \in ids <=> id \in DOMAIN nodes /\ nodes[id] = node
    BY OnNode DEF nodes, type, ids
  <2>5. ASSUME s.pc = r.pc, s.calls = BetweenInstances, s.obj = r.obj, s.placed = r.placed,
               FoundBy(s, "service-instance") = FoundBy(r, "service-instance") \cup ids,
               FoundBy(s, "slavenode") = FoundBy(r, "slavenode")
        PROVE  RightlyPlaced(s, nodes) /\ s.pc = "running" /\ Looping(s, stated, nodes)
    <3>1. InHand(s) = ids
      BY <1>3, <1>6, <2>5, PlacesDiffer DEF InHand, Looping
    <3>2. \A id \in stated : Coming(r, nodes[id], id) => Coming(s, nodes[id], id)
      BY <1>2, <2>4, <2>5, <3>1, PlacesDiffer DEF Coming
    <3>3. \A id \in InHand(s) \cap DOMAIN nodes : nodes[id] = s.obj["slavenode"]
      BY <2>4, <2>5, <3>1
    <3> QED BY <1>1, <1>3, <1>6, <2>5, <3>2, <3>3, PlacesDiffer DEF Looping, RightlyPlaced
  <2> QED BY <2>10, <2>5 DEF nodes, stated
<1>7. CASE r.calls = BetweenInstances
  <2>1. each(c) /\ Type(c) = "service-instance"
    BY <1>7, WhichCall, LoopCalls, LoopPlaces DEF Type
  <2>2. InHand(r) = FoundBy(r, "service-instance")
    BY <1>7, PlacesDiffer DEF InHand
  <2>3. objects' = objects
    BY <2>1, LoopMoves
  <2>4. CASE FoundBy(r, "service-instance") = {}
    <3>1. s = Become(r, Tail(r.calls)) /\ Tail(r.calls) = BetweenNodes /\ BetweenNodes # <<>>
      BY <1>7, <2>1, <2>4, LoopMoves, LoopPlaces
    <3>2. s.pc = r.pc /\ s.calls = BetweenNodes /\ s.obj = r.obj /\ s.found = r.found /\ s.placed = r.placed
      BY <1>1, <3>1, Continued
    <3>3. \A t : FoundBy(s, t) = FoundBy(r, t)
      BY <3>2 DEF FoundBy
    <3>4. InHand(s) = {}
      BY <2>4, <3>2, <3>3, PlacesDiffer DEF InHand
    <3>5. \A node, id : Coming(r, node, id) => Coming(s, node, id)
      BY <1>7, <2>2, <2>4, <3>3, PlacesDiffer DEF Coming
    <3>6. Looping(s, stated, nodes)
      BY <1>1, <1>3, <2>4, <3>2, <3>3, <3>4, <3>5, PlacesDiffer DEF Looping
    <3> QED BY <1>1, <1>3, <2>3, <3>2, <3>6 DEF RightlyPlaced, nodes, stated
  <2>5. CASE FoundBy(r, "service-instance") # {}
    <3>1. PICK i \in FoundBy(r, "service-instance") :
            /\ s.pc = r.pc /\ s.calls = InstanceLoop.body \o r.calls /\ s.placed = r.placed
            /\ "service-instance" \in DOMAIN s.obj /\ s.obj["service-instance"] = i
            /\ \A t \in DOMAIN r.obj : t # "service-instance" => t \in DOMAIN s.obj /\ s.obj[t] = r.obj[t]
            /\ FoundBy(s, "service-instance") = FoundBy(r, "service-instance") \ {i}
            /\ FoundBy(s, "slavenode") = FoundBy(r, "slavenode")
      BY <1>7, <2>1, <2>5, LoopMoves, LoopPlaces
    <3>2. s.calls = AtState
      BY <1>7, <3>1, LoopCalls
    <3>3. "slavenode" \in DOMAIN s.obj /\ s.obj["slavenode"] = r.obj["slavenode"]
      BY <1>3, <1>7, <3>1, PlacesDiffer DEF Looping
    <3>4. InHand(s) = InHand(r)
      BY <2>2, <3>1, <3>2, PlacesDiffer DEF InHand
    <3>5. \A node, id : Coming(r, node, id) => Coming(s, node, id)
      BY <1>7, <3>1, <3>2, <3>3, <3>4, PlacesDiffer DEF Coming
    <3>6. Looping(s, stated, nodes)
      BY <1>1, <1>3, <3>1, <3>2, <3>3, <3>4, <3>5, PlacesDiffer DEF Looping
    <3> QED BY <1>1, <1>3, <2>3, <3>1, <3>6 DEF RightlyPlaced, nodes, stated
  <2> QED BY <2>4, <2>5
<1>8. CASE r.calls = AtState
  <2> DEFINE i == r.obj["service-instance"]
             skip == Become(r, Tail(Tail(r.calls)))
  <2>1. get_state(c) /\ Tail(r.calls) = AtPort /\ Tail(Tail(r.calls)) = BetweenInstances
    BY <1>8, WhichCall, LoopCalls, LoopPlaces
  <2>2. AtPort # <<>> /\ BetweenInstances # <<>>
    BY LoopPlaces
  <2>3. /\ objects' = objects
        /\ \/ s = Become(r, Tail(r.calls))
           \/ s = skip /\ i \notin stated
    <3>1. i \in Stated <=> /\ i \in All("service-instance") /\ IsPrefix("bs_", i)
                           /\ Has("service-instance", i, "meta", {"state"})
      BY DEF Stated
    <3>2. Has("service-instance", i, "meta", {"state"}) => i \in All("service-instance")
      BY AllExist DEF Has
    <3>3. CASE IsPrefix("bs_", i)
      <4>1. Call(c, Has("service-instance", i, "meta", {"state"}), objects, Become(r, Tail(r.calls)), skip)
        BY <2>1, <3>3 DEF get_state, Obj, Continue
      <4> QED BY <3>1, <3>2, <3>3, <4>1, CallOutcomes DEF stated
    <3>4. CASE ~IsPrefix("bs_", i)
      <4>1. Here(c, skip)
        BY <2>1, <3>4 DEF get_state, Obj
      <4> QED BY <3>1, <3>4, <4>1, OwnStep DEF stated
    <3> QED BY <3>3, <3>4
  <2>4. InHand(r) = FoundBy(r, "service-instance") \cup {i}
    BY <1>8, PlacesDiffer DEF InHand
  <2>5. CASE s = Become(r, Tail(r.calls))
    <3>1. s.pc = r.pc /\ s.calls = AtPort /\ s.obj = r.obj /\ s.found = r.found /\ s.placed = r.placed
      BY <1>1, <2>1, <2>2, <2>5, Continued
    <3>2. \A t : FoundBy(s, t) = FoundBy(r, t)
      BY <3>1 DEF FoundBy
    <3>3. InHand(s) = InHand(r)
      BY <2>4, <3>1, <3>2, PlacesDiffer DEF InHand
    <3>4. \A node, id : Coming(r, node, id) => Coming(s, node, id)
      BY <1>8, <3>1, <3>2, <3>3, PlacesDiffer DEF Coming
    <3>5. Looping(s, stated, nodes)
      BY <1>1, <1>3, <1>8, <3>1, <3>2, <3>3, <3>4, PlacesDiffer DEF Looping
    <3> QED BY <1>1, <1>3, <2>3, <3>1, <3>5 DEF RightlyPlaced, nodes, stated
  <2>6. CASE s = skip /\ i \notin stated
    <3>1. /\ s.pc = r.pc /\ s.calls = BetweenInstances /\ s.obj = r.obj /\ s.found = r.found
          /\ s.placed = r.placed
      <4>1. skip = Become(r, BetweenInstances)
        BY <2>1
      <4> QED BY <1>1, <2>2, <2>6, <4>1, Onward
    <3>2. \A t : FoundBy(s, t) = FoundBy(r, t)
      BY <3>1 DEF FoundBy
    <3>3. InHand(s) = FoundBy(r, "service-instance")
      BY <3>1, <3>2, PlacesDiffer DEF InHand
    <3>4. \A id \in stated : \A node : Coming(r, node, id) => Coming(s, node, id)
      BY <1>8, <2>4, <2>6, <3>1, <3>2, <3>3, PlacesDiffer DEF Coming
    <3>5. Looping(s, stated, nodes)
      BY <1>1, <1>3, <1>8, <2>4, <3>1, <3>2, <3>3, <3>4, PlacesDiffer DEF Looping
    <3> QED BY <1>1, <1>3, <2>3, <3>1, <3>5 DEF RightlyPlaced, nodes, stated
  <2> QED BY <2>3, <2>5, <2>6
<1>9. CASE r.calls = AtPort
  <2> DEFINE i == r.obj["service-instance"]
             node == r.obj["slavenode"]
             p == [r EXCEPT !.placed = @ \cup {<<node, i>>}]
  <2>1. get_port(c) /\ Tail(r.calls) = BetweenInstances /\ BetweenInstances # <<>>
    BY <1>9, WhichCall, LoopCalls, LoopPlaces
  <2>2. s = Become(p, Tail(p.calls)) /\ objects' = objects
    BY <2>1, OwnStep DEF get_port, Obj, Continue
  <2>3. /\ DOMAIN p = CliFields /\ p.pc = r.pc /\ p.calls = r.calls /\ p.obj = r.obj /\ p.found = r.found
        /\ p.placed = r.placed \cup {<<node, i>>}
    BY <1>1 DEF CliFields
  <2> HIDE DEF p
  <2>4. /\ s.pc = r.pc /\ s.calls = BetweenInstances /\ s.obj = r.obj /\ s.found = r.found
        /\ s.placed = r.placed \cup {<<node, i>>}
    <3>1. DOMAIN p = CliFields /\ Tail(p.calls) # <<>>
      BY <2>1, <2>3
    <3>2. /\ s.pc = p.pc /\ s.calls = Tail(p.calls) /\ s.obj = p.obj /\ s.found = p.found
          /\ s.placed = p.placed
      BY <2>2, <3>1, Continued
    <3> QED BY <2>1, <2>3, <3>2
  <2>5. \A t : FoundBy(s, t) = FoundBy(r, t)
    BY <2>4 DEF FoundBy
  <2>6. InHand(r) = FoundBy(r, "service-instance") \cup {i} /\ InHand(s) = FoundBy(r, "service-instance")
    BY <1>9, <2>4, <2>5, PlacesDiffer DEF InHand
  <2>7. i \in DOMAIN nodes => nodes[i] = node
    BY <1>3, <2>6 DEF Looping
  <2>8. \A id : Coming(r, nodes[id], id) => Coming(s, nodes[id], id) \/ (id = i /\ node = nodes[id])
    BY <1>9, <2>4, <2>5, <2>6, PlacesDiffer DEF Coming
  <2>9. Looping(s, stated, nodes)
    BY <1>1, <1>3, <1>9, <2>4, <2>5, <2>6, <2>8, PlacesDiffer DEF Looping
  <2>10. RightlyPlaced(s, nodes)
    BY <1>3, <2>4, <2>7 DEF RightlyPlaced
  <2> QED BY <1>1, <2>2, <2>4, <2>9, <2>10 DEF nodes, stated
<1> QED BY <1>3, <1>4, <1>5, <1>6, <1>7, <1>8, <1>9 DEF Looping, AtNodes

\* Tables in which a placement-plan has the actions of PlacementPlan.
PlansIn(table) == \A T \in DOMAIN table : T = "placement-plan" => table[T] = PlacementPlan

\* The table of one type, PlacementPlan if the type is "placement-plan".
LEMMA PlansInOne ==
  ASSUME NEW T, NEW rows, T = "placement-plan" => rows = PlacementPlan
  PROVE  PlansIn(T :> rows)
<1>1. DOMAIN (T :> rows) = {T} /\ (T :> rows)[T] = rows
  BY OfOne
<1> QED BY <1>1 DEF PlansIn

\* The tables of several types.
LEMMA PlansInBoth ==
  ASSUME NEW f, NEW g, PlansIn(f), PlansIn(g)
  PROVE  PlansIn(f @@ g)
<1>1. /\ DOMAIN (f @@ g) = DOMAIN f \cup DOMAIN g
      /\ \A k \in DOMAIN f : (f @@ g)[k] = f[k]
      /\ \A k \in DOMAIN g \ DOMAIN f : (f @@ g)[k] = g[k]
  BY OfBoth
<1> QED BY <1>1 DEF PlansIn

\* g_meta has the table PlacementPlan for "placement-plan".
LEMMA MetaPlans == PlansIn(g_meta)
<1>1. /\ PlansIn("cluster" :> Cluster) /\ PlansIn("idc" :> Idc) /\ PlansIn("group" :> Group)
      /\ PlansIn("slavenode" :> Slavenode)
  BY PlansInOne
<1>2. /\ PlansIn("index-type" :> IndexType) /\ PlansIn("index-partition" :> IndexPartition)
      /\ PlansIn("index" :> Index) /\ PlansIn("job" :> Job)
      /\ PlansIn("dyndata-meta" :> DyndataMeta) /\ PlansIn("dyndata" :> Dyndata)
  BY PlansInOne
<1>3. /\ PlansIn("service" :> Service) /\ PlansIn("service-instance" :> ServiceInstance)
      /\ PlansIn("command" :> Command) /\ PlansIn("placement-plan" :> PlacementPlan)
  BY PlansInOne
<1> QED BY <1>1, <1>2, <1>3, PlansInBoth DEF g_meta

\* The only action on a placement plan is its dump.
LEMMA PlanDumps ==
  ASSUME NEW r, Begun(r), r.request.type = "placement-plan"
  PROVE  r.calls = cli_placement_plan_dump
<1>1. g_meta["placement-plan"] = PlacementPlan
  BY MetaPlans DEF PlansIn, Begun
<1>2. DOMAIN PlacementPlan = {"dump"} /\ PlacementPlan["dump"].impl = cli_placement_plan_dump
  <2> DEFINE row == [impl |-> cli_placement_plan_dump, options |-> <<MayArg("group-id"), MayArg("idc-id")>>]
  <2>1. PlacementPlan = "dump" :> row /\ row.impl = cli_placement_plan_dump
    BY DEF PlacementPlan, Row
  <2> HIDE DEF row
  <2> QED BY <2>1, OfOne
<1> QED BY <1>1, <1>2 DEF Begun

\* A command that begins knows what it has to: nothing is placed yet.
LEMMA BeginKnows ==
  ASSUME NEW r, NEW stated, NEW nodes, Begun(r) \/ Refused(r) \/ r = NotRun
  PROVE  DumpKnows(r, stated, nodes)
<1>1. ASSUME Begun(r), Dumping(r) PROVE DumpKnows(r, stated, nodes)
  <2>1. r.pc = "running" /\ r.placed = {} /\ DOMAIN r.found = {}
    BY <1>1 DEF Begun
  <2>2. AtIndexes(r.calls)
    BY <1>1, PlanDumps, IndexesFirst DEF Dumping
  <2>3. FoundBy(r, "slavenode") = {} /\ FoundBy(r, "service-instance") = {}
    BY <2>1 DEF FoundBy
  <2> QED BY <2>1, <2>2, <2>3 DEF DumpKnows, Starting, RightlyPlaced
<1>2. CASE Refused(r)
  BY <1>2 DEF Refused, DumpKnows
<1>3. CASE r = NotRun
  BY <1>3 DEF NotRun, DumpKnows
<1> QED BY <1>1, <1>2, <1>3 DEF DumpKnows

\* A dump that is killed has not succeeded.
LEMMA KilledKnows ==
  ASSUME NEW r, NEW stated, NEW nodes
  PROVE  DumpKnows(Done(r, "killed"), stated, nodes)
<1>1. Done(r, "killed").pc = "done" /\ Done(r, "killed").exit = "killed"
  BY DEF Done, NotRun
<1> QED BY <1>1 DEF DumpKnows

\* A call of a dump.
LEMMA DumpMoves ==
  ASSUME WellAsked, StoreOK, NodesThere, "fail" \notin faults, NEW c \in Clients, cli_invoke(c),
         Keeps(cli[c], cli'[c]), DumpKnows(cli[c], Stated, Nodes), Dumping(cli[c])
  PROVE  objects' = objects /\ DumpKnows(cli'[c], Stated, Nodes)
<1> DEFINE r == cli[c]
           s == cli'[c]
           nodes == Nodes
           stated == Stated
           Goal == objects' = objects /\ DumpKnows(s, stated, nodes)
<1>1. /\ r.pc = "running" /\ RightlyPlaced(r, nodes)
      /\ Starting(r) \/ Looping(r, stated, nodes)
  BY WhichCall DEF Running, DumpKnows
<1>2. CASE Starting(r) /\ Head(r.calls) = Slavenodes
  <2>1. /\ objects' = objects
        /\ \/ Failed(s)
           \/ RightlyPlaced(s, nodes) /\ s.pc = "running" /\ Looping(s, stated, nodes)
    BY <1>2, SlavenodesMove
  <2> HIDE DEF nodes, stated, s
  <2>2. Goal
    BY <2>1 DEF DumpKnows, Failed
  <2> QED BY <2>2 DEF nodes, stated, s
<1>3. CASE Starting(r) /\ Head(r.calls) # Slavenodes
  <2>1. objects' = objects /\ (Failed(s) \/ (s.pc = "running" /\ Starting(s)))
    BY <1>3, StartingMoves
  <2> HIDE DEF nodes, stated, s
  <2>2. Goal
    BY <2>1 DEF DumpKnows, Failed, Starting, RightlyPlaced
  <2> QED BY <2>2 DEF nodes, stated, s
<1>4. CASE Looping(r, stated, nodes)
  <2>1. /\ objects' = objects
        /\ \/ Failed(s)
           \/ RightlyPlaced(s, nodes) /\ s.pc = "running" /\ Looping(s, stated, nodes)
           \/ /\ RightlyPlaced(s, nodes) /\ s.pc = "done"
              /\ \A id \in s.before \cap stated : <<nodes[id], id>> \in s.placed
    BY <1>1, <1>4, LoopingMoves
  <2> HIDE DEF nodes, stated, s
  <2>2. Goal
    BY <2>1 DEF DumpKnows, Failed
  <2> QED BY <2>2 DEF nodes, stated, s
<1> QED BY <1>1, <1>2, <1>3, <1>4

\* No instance that a dump has met, or that had a state when the dump began,
\* is added again, or given its state again, once it is gone: it could return
\* on another slave node, behind or before the place that the dump is at.
NoneReturns ==
  \A c \in Clients :
    Dumping(cli[c]) =>
      /\ cli[c].before \cap Stated' \subseteq Stated
      /\ Met(cli[c]) \cap All("service-instance")' \subseteq All("service-instance")

\* The inductive invariant: what every dump knows when no call fails on its own.
DumpInv ==
  /\ WellAsked /\ StoreOK
  /\ "fail" \notin faults => \A c \in Clients : DumpKnows(cli[c], Stated, Nodes)

\* At first no dump runs.
LEMMA InitDumpInv == Init => DumpInv
<1> SUFFICES ASSUME Init PROVE DumpInv
  OBVIOUS
<1>1. WellAsked
  BY InitWellAsked
<1>2. StoreOK
  BY ScenarioAssumption DEF Init, StoreOK
<1>3. \A c \in Clients : cli[c] = NotRun
  BY DEF Init, ZkctlInit
<1> QED BY <1>1, <1>2, <1>3, BeginKnows DEF DumpInv

\* A survivor is where it was.
LEMMA NodesStay ==
  ASSUME StoreOK, Stores
  PROVE  \A id \in DOMAIN Nodes \cap DOMAIN Nodes' : Nodes'[id] = Nodes[id]
<1> SUFFICES ASSUME NEW id \in DOMAIN Nodes, id \in DOMAIN Nodes' PROVE Nodes'[id] = Nodes[id]
  OBVIOUS
<1> DEFINE k == <<"service-instance", id>>
<1>1. k \in DOMAIN objects /\ Nodes[id] = objects[k].node
  BY StatedAre, AllExist DEF Exists
<1>2. StoreOK'
  BY StoresKeep
<1>3. k \in DOMAIN objects' /\ Nodes'[id] = objects'[k].node
  <2>1. id \in All("service-instance")' /\ Nodes'[id] = objects'[k].node
    BY DEF Nodes
  <2>2. \E j \in DOMAIN objects' : j[1] = "service-instance" /\ j[2] = id
    BY <2>1 DEF All, Ids
  <2> QED BY <1>2, <2>1, <2>2 DEF StoreOK
<1>4. k[1] # "cluster"
  OBVIOUS
<1> QED BY <1>1, <1>3, <1>4, StoresKeep

\* Every step, of a dump or of another client, keeps what each dump knows.
LEMMA StepDumpInv == DumpInv /\ NodesThere /\ [Next]_vars /\ [NoneReturns]_vars => DumpInv'
<1> SUFFICES ASSUME DumpInv, NodesThere, [Next]_vars, [NoneReturns]_vars PROVE DumpInv'
  OBVIOUS
<1>1. WellAsked'
  BY StepWellAsked DEF DumpInv
<1>2. /\ faults' = faults
      /\ \/ objects' = objects /\ cli' = cli
         \/ \E c \in Clients :
              /\ \E r : cli' = [cli EXCEPT ![c] = r]
              /\ \/ objects' = objects /\ (Begun(cli'[c]) \/ Refused(cli'[c]) \/ cli'[c] = NotRun)
                 \/ objects' = objects /\ Running(c) /\ cli'[c] = Done(cli[c], "killed")
                 \/ cli_invoke(c) /\ Keeps(cli[c], cli'[c])
  BY StepCases DEF DumpInv
<1>3. Stores
  BY <1>2, InvokeStores, StoredWhenUnchanged
<1>4. StoreOK'
  BY <1>3, StoresKeep DEF DumpInv
<1>5. ASSUME "fail" \notin faults PROVE \A c \in Clients : DumpKnows(cli'[c], Stated', Nodes')
  <2>1. \A c \in Clients : DumpKnows(cli[c], Stated, Nodes)
    BY <1>5 DEF DumpInv
  <2>2. objects' = objects => Stated' = Stated /\ Nodes' = Nodes
    BY DEF Stated, Nodes, All, Has, Exists, Dict
  <2>3. CASE objects' = objects /\ cli' = cli
    BY <2>1, <2>2, <2>3
  <2>4. ASSUME NEW c \in Clients, NEW r, cli' = [cli EXCEPT ![c] = r],
               \/ objects' = objects /\ (Begun(cli'[c]) \/ Refused(cli'[c]) \/ cli'[c] = NotRun)
               \/ objects' = objects /\ Running(c) /\ cli'[c] = Done(cli[c], "killed")
               \/ cli_invoke(c) /\ Keeps(cli[c], cli'[c])
        PROVE  \A d \in Clients : DumpKnows(cli'[d], Stated', Nodes')
    <3>1. ASSUME NEW d \in Clients, d # c PROVE DumpKnows(cli'[d], Stated', Nodes')
      <4>1. cli'[d] = cli[d]
        BY <2>4, <3>1
      <4>2. CASE objects' = objects
        BY <2>1, <2>2, <4>1, <4>2
      <4>3. CASE objects' # objects
        <5>1. NoneReturns
          BY <4>3 DEF vars
        <5>2. DumpKnows(cli[d], Stated, Nodes) /\ (Dumping(cli[d]) =>
                /\ cli[d].before \cap Stated' \subseteq Stated
                /\ Met(cli[d]) \cap DOMAIN Nodes' \subseteq DOMAIN Nodes)
          BY <2>1, <5>1 DEF NoneReturns, Nodes
        <5>3. Stated \subseteq DOMAIN Nodes /\ Stated' \subseteq DOMAIN Nodes'
          BY DEF Stated, Nodes
        <5>4. \A id \in DOMAIN Nodes \cap DOMAIN Nodes' : Nodes'[id] = Nodes[id]
          BY <1>3, NodesStay DEF DumpInv
        <5>5. \A q, stated, nodes, later, nodesLater :
                /\ stated \subseteq DOMAIN nodes /\ later \subseteq DOMAIN nodesLater
                /\ \A id \in DOMAIN nodes \cap DOMAIN nodesLater : nodesLater[id] = nodes[id]
                /\ Dumping(q) => q.before \cap later \subseteq stated /\ Met(q) \cap DOMAIN nodesLater \subseteq DOMAIN nodes
                /\ DumpKnows(q, stated, nodes)
                => DumpKnows(q, later, nodesLater)
          BY DumpStill
        <5> QED BY <4>1, <5>2, <5>3, <5>4, <5>5
      <4> QED BY <4>2, <4>3
    <3>2. DumpKnows(cli'[c], Stated', Nodes')
      <4>1. CASE objects' = objects /\ (Begun(cli'[c]) \/ Refused(cli'[c]) \/ cli'[c] = NotRun)
        BY <4>1, BeginKnows
      <4>2. CASE objects' = objects /\ Running(c) /\ cli'[c] = Done(cli[c], "killed")
        BY <4>2, KilledKnows
      <4>3. CASE cli_invoke(c) /\ Keeps(cli[c], cli'[c])
        <5>1. CASE Dumping(cli[c])
          <6>1. objects' = objects /\ DumpKnows(cli'[c], Stated, Nodes)
            BY <1>5, <2>1, <4>3, <5>1, DumpMoves DEF DumpInv
          <6> QED BY <2>2, <6>1
        <5>2. CASE ~Dumping(cli[c])
          BY <4>3, <5>2 DEF Keeps, Dumping, DumpKnows
        <5> QED BY <5>1, <5>2
      <4> QED BY <2>4, <4>1, <4>2, <4>3
    <3> QED BY <3>1, <3>2
  <2> QED BY <1>2, <2>3, <2>4
<1> QED BY <1>1, <1>2, <1>4, <1>5 DEF DumpInv

\* A dump that has succeeded knows that its plan is complete.
LEMMA DumpInvIsComplete == DumpInv => DumpComplete
<1> SUFFICES ASSUME DumpInv, "fail" \notin faults, NEW c \in Clients,
                    cli[c].pc = "done", cli[c].exit = "success", cli[c].request.type = "placement-plan",
                    \A d \in {"idc", "group"} : ~Restricts(c, d)
    PROVE  /\ \A id \in cli[c].before \cap Stated :
                <<objects["service-instance", id].node, id>> \in cli[c].placed
           /\ \A place \in cli[c].placed :
                Exists("service-instance", place[2]) => objects["service-instance", place[2]].node = place[1]
  BY DEF DumpComplete, DumpWhole
<1>1. Dumping(cli[c])
  BY DEF Dumping, Restricts, Var
<1>2. /\ RightlyPlaced(cli[c], Nodes)
      /\ \A id \in cli[c].before \cap Stated : <<Nodes[id], id>> \in cli[c].placed
  BY <1>1 DEF DumpInv, DumpKnows
<1>3. \A id : Exists("service-instance", id) <=> id \in DOMAIN Nodes
  BY AllExist, StatedAre DEF DumpInv
<1> QED BY <1>2, <1>3, StatedAre DEF RightlyPlaced

\* A dump that succeeds (cli_placement_plan_dump) names every instance that had a
\* state when it began and still has, on its slave node, whatever the other
\* invocations change meanwhile.
THEOREM DumpCompleteHolds == Spec /\ []NodesThere /\ [][NoneReturns]_vars => []DumpComplete
<1>1. Spec /\ []NodesThere /\ [][NoneReturns]_vars => []DumpInv
  BY InitDumpInv, StepDumpInv, PTL DEF Spec
<1> QED BY <1>1, DumpInvIsComplete, PTL
=============================================================================
