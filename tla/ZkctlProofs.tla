---------------------------- MODULE ZkctlProofs ----------------------------
(***************************************************************************)
(* Command lines: what the parser makes of them, that every invocation     *)
(* runs a request of the parser, and every push a step of its script; then *)
(* the steps.                                                              *)
(***************************************************************************)
EXTENDS ZkctlSystem, TLAPS, SequenceTheorems, WellFoundedInduction

\* An action takes the options named in S.
Options(S) == [name : S, required : BOOLEAN, has_arg : BOOLEAN]
Take(rows, S) == \A action \in DOMAIN rows : rows[action].options \in Seq(Options(S))

\* Those of its type that do not begin with the type without being its own.
Fitting(T) == {name \in Known : <<T, name>> \notin AlsoBegin}
Common == {"data", "pretty", "key", "value", "resource-num"}

\* A row, and rows one after the other.
LEMMA TakeRow ==
  ASSUME NEW S, NEW action, NEW impl, NEW options \in Seq(Options(S))
  PROVE  Take(Row(action, impl, options), S)
<1>1. DOMAIN Row(action, impl, options) = {action} /\ Row(action, impl, options)[action].options = options
  BY DEF Row, :>
<1> QED BY <1>1 DEF Take

\* Tables whose actions take options of S make one whose actions do.
LEMMA TakeRows ==
  ASSUME NEW S, NEW f, NEW g, Take(f, S), Take(g, S)
  PROVE  Take(f @@ g, S)
<1>1. /\ DOMAIN (f @@ g) = DOMAIN f \cup DOMAIN g
      /\ \A k \in DOMAIN f : (f @@ g)[k] = f[k]
      /\ \A k \in DOMAIN g \ DOMAIN f : (f @@ g)[k] = g[k]
  BY OfBoth
<1> QED BY <1>1 DEF Take

\* The lists of options that recur.
LEMMA CommonOptions ==
  ASSUME NEW S, Common \subseteq S
  PROVE  /\ Key \in Seq(Options(S)) /\ KeyValue \in Seq(Options(S)) /\ KeyNum \in Seq(Options(S))
         /\ Data \in Seq(Options(S)) /\ <<Pretty>> \in Seq(Options(S)) /\ <<>> \in Seq(Options(S))
BY DEF Common, Options, Key, KeyValue, KeyNum, Data, Pretty, Arg, Opt

\* The rows every type has take the common options and the own ones given.
LEMMA TemplateRows ==
  ASSUME NEW S, Common \subseteq S, NEW T, NEW own \in Seq(Options(S)), NEW state
  PROVE  /\ Take(AddDel(T, own), S) /\ Take(MetaRows(T, own), S)
         /\ Take(SemaphoreRows(T, own), S) /\ Take(StateRows(T, own, state), S) /\ Take(Keys(T, own), S)
<1>1. /\ own \o Key \in Seq(Options(S)) /\ own \o KeyValue \in Seq(Options(S))
      /\ own \o KeyNum \in Seq(Options(S)) /\ own \o Data \in Seq(Options(S))
      /\ own \o <<Pretty>> \in Seq(Options(S))
  BY CommonOptions, ConcatProperties
<1>2. Take(AddDel(T, own), S)
  BY <1>1, TakeRow, TakeRows DEF AddDel
<1>3. Take(MetaRows(T, own), S)
  BY <1>1, TakeRow, TakeRows DEF MetaRows
<1>4. Take(SemaphoreRows(T, own), S)
  BY <1>1, TakeRow, TakeRows DEF SemaphoreRows
<1>5. Take(StateRows(T, own, state), S)
  BY <1>1, TakeRow, TakeRows DEF StateRows
<1>6. Take(Keys(T, own), S)
  BY <1>1, TakeRow, TakeRows DEF Keys
<1> QED BY <1>2, <1>3, <1>4, <1>5, <1>6

\* One option with an argument, and the recurring lists, for the rows below.
LEMMA OneArg ==
  ASSUME NEW S, Common \subseteq S, NEW name \in S
  PROVE  /\ <<Arg(name)>> \in Seq(Options(S)) /\ <<MayArg(name)>> \in Seq(Options(S))
         /\ Data \in Seq(Options(S)) /\ <<Pretty>> \in Seq(Options(S)) /\ <<>> \in Seq(Options(S))
         /\ Key \in Seq(Options(S)) /\ KeyValue \in Seq(Options(S))
<1>1. <<Arg(name)>> \in Seq(Options(S)) /\ <<MayArg(name)>> \in Seq(Options(S))
  BY DEF Options, Arg, MayArg, Opt
<1> QED BY <1>1, CommonOptions

\* The actions of each type take options of their own and those that recur.
LEMMA NodeRows ==
  ASSUME NEW S, Common \subseteq S
  PROVE  /\ Take(Cluster, S)
         /\ "idc-id" \in S => Take(Idc, S)
         /\ "group-id" \in S => Take(Group, S)
         /\ {"idc-id", "group-id", "slavenode-id"} \subseteq S => Take(Slavenode, S)
         /\ {"idc-id", "group-id"} \subseteq S => Take(PlacementPlan, S)
<1>1. Take(Cluster, S)
  BY CommonOptions, TemplateRows, TakeRow, TakeRows DEF Cluster
<1>2. ASSUME "idc-id" \in S PROVE Take(Idc, S)
  BY <1>2, OneArg, TemplateRows, TakeRow, TakeRows DEF Idc, Domain
<1>3. ASSUME "group-id" \in S PROVE Take(Group, S)
  BY <1>3, OneArg, TemplateRows, TakeRow, TakeRows DEF Group, Domain
<1>4. ASSUME {"idc-id", "group-id"} \subseteq S PROVE <<MayArg("idc-id"), MayArg("group-id")>> \in Seq(Options(S))
  BY <1>4 DEF Options, MayArg, Opt
<1>5. ASSUME {"idc-id", "group-id", "slavenode-id"} \subseteq S PROVE Take(Slavenode, S)
  BY <1>4, <1>5, OneArg, TemplateRows, TakeRow, TakeRows DEF Slavenode
<1>6. ASSUME {"idc-id", "group-id"} \subseteq S PROVE <<MayArg("group-id"), MayArg("idc-id")>> \in Seq(Options(S))
  BY <1>6 DEF Options, MayArg, Opt
<1>7. ASSUME {"idc-id", "group-id"} \subseteq S PROVE Take(PlacementPlan, S)
  BY <1>6, <1>7, TakeRow DEF PlacementPlan
<1> QED BY <1>1, <1>2, <1>3, <1>5, <1>7

\* The tables of the index and dyndata types and of jobs take fitting options.
LEMMA IndexRows ==
  ASSUME NEW S, Common \subseteq S
  PROVE  /\ "index-type-id" \in S => Take(IndexType, S)
         /\ "index-partition-id" \in S => Take(IndexPartition, S)
         /\ "index-id" \in S => Take(Index, S)
         /\ "job-id" \in S => Take(Job, S)
         /\ "dyndata-meta-id" \in S => Take(DyndataMeta, S)
         /\ "dyndata-id" \in S => Take(Dyndata, S)
<1>1. ASSUME "index-type-id" \in S PROVE Take(IndexType, S)
  BY <1>1, OneArg, TemplateRows, TakeRow, TakeRows DEF IndexType
<1>2. ASSUME "index-partition-id" \in S PROVE Take(IndexPartition, S)
  BY <1>2, OneArg, TemplateRows, TakeRow, TakeRows DEF IndexPartition
<1>3. ASSUME "index-id" \in S PROVE Take(Index, S)
  BY <1>3, OneArg, TemplateRows, TakeRow, TakeRows DEF Index
<1>4. ASSUME "job-id" \in S PROVE Take(Job, S)
  BY <1>4, OneArg, TemplateRows, TakeRow, TakeRows DEF Job
<1>5. ASSUME "dyndata-meta-id" \in S PROVE Take(DyndataMeta, S)
  BY <1>5, OneArg, TemplateRows, TakeRow, TakeRows DEF DyndataMeta
<1>6. ASSUME "dyndata-id" \in S PROVE Take(Dyndata, S)
  <2>1. /\ <<Arg("dyndata-id")>> \in Seq(Options(S))
        /\ <<MayArg("data"), MayArg("key"), MayArg("value")>> \in Seq(Options(S))
    BY <1>6 DEF Options, Arg, MayArg, Opt, Common
  <2>2. <<Arg("dyndata-id")>> \o <<MayArg("data"), MayArg("key"), MayArg("value")>> \in Seq(Options(S))
    BY <2>1, ConcatProperties
  <2> QED BY <1>6, <2>1, <2>2, OneArg, TemplateRows, TakeRow, TakeRows DEF Dyndata
<1> QED BY <1>1, <1>2, <1>3, <1>4, <1>5, <1>6

\* The tables of services, their instances and commands do, too.
LEMMA ServiceRows ==
  ASSUME NEW S, Common \subseteq S
  PROVE  /\ "service-id" \in S => Take(Service, S)
         /\ {"service-instance-id", "slavenode-id", "service-id"} \subseteq S => Take(ServiceInstance, S)
         /\ {"service-instance-id", "command-id"} \subseteq S => Take(Command, S)
<1>1. ASSUME "service-id" \in S PROVE Take(Service, S)
  BY <1>1, OneArg, TemplateRows, TakeRow, TakeRows DEF Service
<1>2. ASSUME {"service-instance-id", "slavenode-id", "service-id"} \subseteq S PROVE Take(ServiceInstance, S)
  <2>1. <<Arg("service-id"), Arg("slavenode-id")>> \in Seq(Options(S))
    BY <1>2 DEF Options, Arg, Opt
  <2>2. <<Arg("service-id"), Arg("slavenode-id")>> \o Data \in Seq(Options(S))
    BY <2>1, CommonOptions, ConcatProperties
  <2> QED BY <1>2, <2>2, OneArg, TemplateRows, TakeRow, TakeRows DEF ServiceInstance
<1>3. ASSUME {"service-instance-id", "command-id"} \subseteq S PROVE Take(Command, S)
  <2> DEFINE instance == <<Arg("service-instance-id")>>
             own == instance \o <<Arg("command-id")>>
  <2>1. instance \in Seq(Options(S)) /\ own \in Seq(Options(S))
    BY <1>3, OneArg, ConcatProperties
  <2>2. /\ own \o Key \in Seq(Options(S)) /\ own \o KeyValue \in Seq(Options(S))
        /\ own \o Data \in Seq(Options(S)) /\ own \o <<Pretty>> \in Seq(Options(S))
    BY <2>1, CommonOptions, ConcatProperties
  <2> QED BY <2>1, <2>2, CommonOptions, TakeRow, TakeRows DEF Command
<1> QED BY <1>1, <1>2, <1>3

\* Tables of which every action takes fitting options, one before the other.
Fit(table) == \A T \in DOMAIN table : Take(table[T], Fitting(T))

\* A type whose table takes the options that fit it.
LEMMA FitOne ==
  ASSUME NEW T, NEW rows, Take(rows, Fitting(T))
  PROVE  Fit(T :> rows)
<1>1. DOMAIN (T :> rows) = {T} /\ (T :> rows)[T] = rows
  BY OfOne
<1> QED BY <1>1 DEF Fit

\* Types that fit, together.
LEMMA FitBoth ==
  ASSUME NEW f, NEW g, Fit(f), Fit(g)
  PROVE  Fit(f @@ g)
<1>1. /\ DOMAIN (f @@ g) = DOMAIN f \cup DOMAIN g
      /\ \A k \in DOMAIN f : (f @@ g)[k] = f[k]
      /\ \A k \in DOMAIN g \ DOMAIN f : (f @@ g)[k] = g[k]
  BY OfBoth
<1> QED BY <1>1 DEF Fit

\* No action takes an option that begins with its type, but for the type's own.
LEMMA MetaFits == Fit(g_meta)
<1>1. \A T : Common \subseteq Fitting(T)
  BY DEF Common, Fitting, Known, option2var, object_ids, AlsoBegin
<1>2. /\ "idc-id" \in Fitting("idc") /\ "group-id" \in Fitting("group")
      /\ {"idc-id", "group-id", "slavenode-id"} \subseteq Fitting("slavenode")
      /\ {"idc-id", "group-id"} \subseteq Fitting("placement-plan")
      /\ "index-type-id" \in Fitting("index-type") /\ "index-partition-id" \in Fitting("index-partition")
      /\ "index-id" \in Fitting("index") /\ "job-id" \in Fitting("job")
      /\ "dyndata-meta-id" \in Fitting("dyndata-meta") /\ "dyndata-id" \in Fitting("dyndata")
      /\ "service-id" \in Fitting("service")
      /\ {"service-instance-id", "slavenode-id", "service-id"} \subseteq Fitting("service-instance")
      /\ {"service-instance-id", "command-id"} \subseteq Fitting("command")
  BY DEF Fitting, Known, option2var, object_ids, AlsoBegin
<1>3. /\ Fit("cluster" :> Cluster) /\ Fit("idc" :> Idc) /\ Fit("group" :> Group)
      /\ Fit("slavenode" :> Slavenode) /\ Fit("placement-plan" :> PlacementPlan)
  BY <1>1, <1>2, NodeRows, FitOne
<1>4. /\ Fit("index-type" :> IndexType) /\ Fit("index-partition" :> IndexPartition)
      /\ Fit("index" :> Index) /\ Fit("job" :> Job)
      /\ Fit("dyndata-meta" :> DyndataMeta) /\ Fit("dyndata" :> Dyndata)
  BY <1>1, <1>2, IndexRows, FitOne
<1>5. /\ Fit("service" :> Service) /\ Fit("service-instance" :> ServiceInstance)
      /\ Fit("command" :> Command)
  BY <1>1, <1>2, ServiceRows, FitOne
<1> QED BY <1>3, <1>4, <1>5, FitBoth DEF g_meta
-----------------------------------------------------------------------------
\* A request: nothing the parser does not know has reached it, and what it is
\* carried out on is what its type's own option names, nothing if not given.
Fields == {"type", "action", "vars", "keys", "key_values", "key", "object_id", "specified", "error"}
Good(request) ==
  /\ DOMAIN request = Fields
  /\ DOMAIN request.vars = option2var
  /\ request.error # "pls check code"
  /\ \A own \in option2var : <<request.type, own>> \in OwnOptions => request.object_id = request.vars[own]

\* A request is for its line's type and action, whatever its options say.
IsOf(request, line) == request.type = line.type /\ request.action = line.action

\* A request begins good (the constructor cli_request).
LEMMA NewIsGood ==
  ASSUME NEW line
  PROVE  Good(cli_request(line)) /\ IsOf(cli_request(line), line)
BY DEF Good, cli_request, Fields, IsOf

\* A refused request stays good: the parser knows why it refuses.
LEMMA RefusedIsGood ==
  ASSUME NEW request, Good(request), NEW error, error # "pls check code"
  PROVE  LET r == [request EXCEPT !.error = error] IN Good(r) /\ IsOf(r, request) /\ r.error = error
BY DEF Good, Fields, IsOf

\* An option goes to its member.
LEMMA IntoIsGood ==
  ASSUME NEW request, Good(request), NEW name \in Known, NEW value
  PROVE  LET r == Into(request, name, value) IN
         /\ DOMAIN r = Fields /\ DOMAIN r.vars = option2var
         /\ r.error = request.error /\ IsOf(r, request) /\ r.object_id = request.object_id
         /\ \A own \in option2var : r.vars[own] = IF own = name THEN value ELSE request.vars[own]
<1>1. CASE name \in option2var
  BY <1>1 DEF Good, Into, Fields, IsOf
<1>2. CASE name = "key"
  BY <1>2 DEF Good, Into, Fields, IsOf, option2var, object_ids
<1>3. CASE name = "value"
  BY <1>3 DEF Good, Into, Fields, IsOf, option2var, object_ids
<1> QED BY <1>1, <1>2, <1>3 DEF Known

\* Of the fitting options only the type's own names the object.
LEMMA ProcessIsGood ==
  ASSUME NEW request, Good(request), request.type \in DOMAIN g_meta,
         NEW name \in Fitting(request.type), NEW value
  PROVE  LET r == cli_process_option(request, name, value) IN Good(r) /\ IsOf(r, request)
<1> DEFINE i == Into(request, name, value)
           r == cli_process_option(request, name, value)
<1>1. /\ DOMAIN i = Fields /\ DOMAIN i.vars = option2var
      /\ i.error = request.error /\ IsOf(i, request) /\ i.object_id = request.object_id
      /\ \A own \in option2var : i.vars[own] = IF own = name THEN value ELSE request.vars[own]
  BY IntoIsGood DEF Fitting
<1>2. IsPrefix(request.type, name) <=> <<request.type, name>> \in OwnOptions
  BY NamesAssumption DEF Fitting
<1>3. r = IF <<request.type, name>> \in OwnOptions THEN [i EXCEPT !.object_id = value] ELSE i
  BY <1>2 DEF cli_process_option
<1> HIDE DEF i, r
<1>4. CASE <<request.type, name>> \in OwnOptions
  <2>1. \A own : <<request.type, own>> \in OwnOptions => own = name
    BY <1>4 DEF OwnOptions
  <2>2. r = [i EXCEPT !.object_id = value]
    BY <1>3, <1>4
  <2> QED BY <1>1, <2>1, <2>2 DEF Good, Fields, IsOf, r
<1>5. CASE <<request.type, name>> \notin OwnOptions
  <2>1. r = i
    BY <1>3, <1>5
  <2> QED BY <1>1, <1>5, <2>1 DEF Good, IsOf, r
<1> QED BY <1>4, <1>5

\* Reading one option of the command line leaves the request good.
LEMMA ReadOptionIsGood ==
  ASSUME NEW request, Good(request), request.type \in DOMAIN g_meta,
         NEW options \in Seq(Options(Fitting(request.type))), NEW opt
  PROVE  LET r == ReadOption(request, options, opt) IN Good(r) /\ IsOf(r, request)
<1> DEFINE found == getopt_long(options, opt)
           o == CHOOSE o \in found : TRUE
           read == cli_process_option(request, o.name, IF o.has_arg THEN opt[2] ELSE "OK")
<1>1. found \subseteq Options(Fitting(request.type))
  <2>1. \A i \in DOMAIN options : options[i] \in Options(Fitting(request.type))
    OBVIOUS
  <2>2. found \subseteq {options[i] : i \in DOMAIN options}
    BY DEF getopt_long
  <2> QED BY <2>1, <2>2
<1> HIDE DEF found
<1>2. CASE request.error # ""
  BY <1>2 DEF ReadOption, IsOf
<1>3. CASE request.error = "" /\ found = {}
  BY <1>3, RefusedIsGood DEF ReadOption, found
<1>4. CASE request.error = "" /\ found # {}
  <2>1. o \in Options(Fitting(request.type))
    BY <1>1, <1>4
  <2>2. o.name \in Fitting(request.type)
    BY <2>1 DEF Options
  <2> HIDE DEF o
  <2>3. Good(read) /\ IsOf(read, request)
    BY <2>2, ProcessIsGood
  <2>4. ReadOption(request, options, opt) = [read EXCEPT !.specified = @ \cup {o.name}]
    BY <1>4 DEF ReadOption, found, o
  <2> HIDE DEF read
  <2> QED BY <2>3, <2>4 DEF Good, Fields, IsOf
<1> QED BY <1>2, <1>3, <1>4
-----------------------------------------------------------------------------
\* What is read of a command line is a recursive function.  That there is one,
\* and that each of its requests is good, goes by the least number of which it
\* does not hold.
LEMMA LeastNat ==
  ASSUME NEW S \in SUBSET Nat, S # {}
  PROVE  \E n \in S : \A m \in S : n <= m
<1>1. PICK n \in S : \A m \in S : ~(<<m, n>> \in OpToRel(<, Nat))
  BY NatLessThanWellFounded, WFMin
<1>2. \A m, k \in Nat : m < k => <<m, k>> \in OpToRel(<, Nat)
  BY DEF OpToRel
<1>3. \A m \in S : ~(m < n)
  BY <1>1, <1>2, Zenon
<1> QED BY <1>3

Reading(line, options, f, n) ==
  f = [i \in 0..n |-> IF i = 0 THEN cli_request(line) ELSE ReadOption(f[i - 1], options, line.opts[i])]

\* There is a reading of the first n options, whatever n is.
LEMMA ReadingExists ==
  ASSUME NEW line, NEW options, NEW n \in Nat
  PROVE  \E f : Reading(line, options, f, n)
<1> DEFINE ReadOne(i, r) == ReadOption(r, options, line.opts[i])
           Some(m) == \E f : Reading(line, options, f, m)
           Without == {m \in Nat : ~Some(m)}
<1>1. SUFFICES ASSUME ~Some(n) PROVE FALSE
  OBVIOUS
<1>2. PICK m \in Without : \A k \in Without : m <= k
  <2>1. Without \in SUBSET Nat /\ Without # {}
    BY <1>1
  <2> HIDE DEF Without
  <2> QED BY <2>1, LeastNat
<1>3. CASE m = 0
  <2>1. Reading(line, options, [i \in 0..0 |-> cli_request(line)], 0)
    BY DEF Reading
  <2> QED BY <1>2, <1>3, <2>1
<1>4. CASE m # 0
  <2>1. m - 1 \in Nat /\ m - 1 \notin Without
    BY <1>2, <1>4
  <2>2. PICK f : Reading(line, options, f, m - 1)
    BY <2>1
  <2> DEFINE g == [i \in 0..m |-> IF i <= m - 1 THEN f[i] ELSE ReadOne(m, f[m - 1])]
  <2>3. ASSUME NEW i \in 0..m
        PROVE  g[i] = IF i = 0 THEN cli_request(line) ELSE ReadOne(i, g[i - 1])
    <3>1. CASE i <= m - 1
      <4>1. f[i] = IF i = 0 THEN cli_request(line) ELSE ReadOne(i, f[i - 1])
        BY <1>2, <2>1, <2>2, <3>1 DEF Reading
      <4>2. i # 0 => i - 1 \in 0..m /\ i - 1 <= m - 1
        BY <1>2, <3>1
      <4> HIDE DEF ReadOne
      <4> QED BY <3>1, <4>1, <4>2
    <3>2. CASE i > m - 1
      <4>1. i = m /\ m - 1 \in 0..m /\ m - 1 <= m - 1 /\ ~(m <= m - 1)
        BY <1>2, <1>4, <3>2
      <4> HIDE DEF ReadOne
      <4> QED BY <1>4, <4>1
    <3> QED BY <1>2, <3>1, <3>2
  <2>4. Reading(line, options, g, m)
    <3>1. g = [i \in 0..m |-> g[i]]
      OBVIOUS
    <3> HIDE DEF g
    <3> QED BY <2>3, <3>1 DEF Reading
  <2> QED BY <1>2, <2>4
<1> QED BY <1>3, <1>4

\* After each option that was read the request is good.
LEMMA ReadingIsGood ==
  ASSUME NEW line, line.type \in DOMAIN g_meta,
         NEW options \in Seq(Options(Fitting(line.type))),
         NEW n \in Nat, NEW f, Reading(line, options, f, n)
  PROVE  \A i \in 0..n : Good(f[i]) /\ IsOf(f[i], line)
<1> DEFINE Bad == {i \in 0..n : ~(Good(f[i]) /\ IsOf(f[i], line))}
<1>1. SUFFICES ASSUME Bad # {} PROVE FALSE
  OBVIOUS
<1>2. PICK m \in Bad : \A k \in Bad : m <= k
  <2>1. Bad \in SUBSET Nat
    OBVIOUS
  <2> HIDE DEF Bad
  <2> QED BY <1>1, <2>1, LeastNat
<1>3. f[m] = IF m = 0 THEN cli_request(line) ELSE ReadOption(f[m - 1], options, line.opts[m])
  BY <1>2 DEF Reading
<1>4. CASE m = 0
  BY <1>2, <1>3, <1>4, NewIsGood
<1>5. CASE m # 0
  <2>1. m - 1 \in 0..n /\ m - 1 \notin Bad
    BY <1>2, <1>5
  <2>2. Good(f[m - 1]) /\ IsOf(f[m - 1], line)
    BY <2>1
  <2>3. Good(f[m]) /\ IsOf(f[m], line)
    BY <1>3, <1>5, <2>2, ReadOptionIsGood DEF IsOf
  <2> QED BY <1>2, <2>3
<1> QED BY <1>4, <1>5

\* The request is good when all options have been read.
LEMMA ReadOptionsIsGood ==
  ASSUME NEW line, line.type \in DOMAIN g_meta, Len(line.opts) \in Nat,
         NEW options \in Seq(Options(Fitting(line.type)))
  PROVE  LET r == ReadOptions(line, options) IN Good(r) /\ IsOf(r, line)
<1> DEFINE n == Len(line.opts)
           f == CHOOSE f : Reading(line, options, f, n)
<1>1. Reading(line, options, f, n)
  BY ReadingExists
<1>2. ReadOptions(line, options) = f[n] /\ n \in Nat
  BY DEF ReadOptions, Reading
<1> HIDE DEF f, n
<1>3. \A i \in 0..n : Good(f[i]) /\ IsOf(f[i], line)
  BY <1>1, <1>2, ReadingIsGood
<1>4. n \in 0..n
  BY <1>2
<1> QED BY <1>2, <1>3, <1>4

\* cli_parse_options returns a good request, and accepts only an action that the
\* table has.
LEMMA ParsedIsGood ==
  ASSUME NEW line, Len(line.opts) \in Nat
  PROVE  LET r == cli_parse_options(line) IN
         /\ Good(r) /\ IsOf(r, line)
         /\ r.error = "" => line.type \in DOMAIN g_meta /\ line.action \in DOMAIN g_meta[line.type]
<1> DEFINE new == cli_request(line)
           parsed == cli_parse_options(line)
<1>1. CASE line.type \notin DOMAIN g_meta
  <2>1. parsed = [new EXCEPT !.error = "is not a valid zk object"]
    BY <1>1 DEF cli_parse_options
  <2>2. Good(new) /\ IsOf(new, line)
    BY NewIsGood
  <2> HIDE DEF new, parsed
  <2>3. Good(parsed) /\ IsOf(parsed, line) /\ parsed.error # ""
    BY <2>1, <2>2 DEF Good, Fields, IsOf
  <2> QED BY <2>3 DEF parsed
<1>2. CASE line.type \in DOMAIN g_meta /\ line.action \notin DOMAIN g_meta[line.type]
  <2>1. parsed = [new EXCEPT !.error = "doesn't support operation"]
    BY <1>2 DEF cli_parse_options
  <2>2. Good(new) /\ IsOf(new, line)
    BY NewIsGood
  <2> HIDE DEF new, parsed
  <2>3. Good(parsed) /\ IsOf(parsed, line) /\ parsed.error # ""
    BY <2>1, <2>2 DEF Good, Fields, IsOf
  <2> QED BY <2>3 DEF parsed
<1>3. CASE line.type \in DOMAIN g_meta /\ line.action \in DOMAIN g_meta[line.type]
  <2> DEFINE options == g_meta[line.type][line.action].options
             read == ReadOptions(line, options)
  <2>1. options \in Seq(Options(Fitting(line.type)))
    BY <1>3, MetaFits DEF Fit, Take
  <2> HIDE DEF options
  <2>2. Good(read) /\ IsOf(read, line)
    BY <1>3, <2>1, ReadOptionsIsGood
  <2>3. parsed = IF read.error = "" /\ Missing(read, options) # {}
                 THEN [read EXCEPT !.error = "missing option"] ELSE read
    BY <1>3 DEF cli_parse_options, options
  <2> HIDE DEF read, parsed
  <2>4. Good(parsed) /\ IsOf(parsed, line)
    BY <2>2, <2>3 DEF Good, Fields, IsOf
  <2> QED BY <1>3, <2>4 DEF parsed
<1> QED BY <1>1, <1>2, <1>3
-----------------------------------------------------------------------------
\* What becomes of an invocation while it makes its calls has its request.
CliFields == {"pc", "request", "calls", "obj", "found", "data", "out", "placed", "exit", "before"}
Keeps(r0, r) == DOMAIN r = CliFields /\ r.request = r0.request /\ r.before = r0.before

\* However an invocation goes on or ends, it keeps its request.
LEMMA EndsKeep ==
  ASSUME NEW r0, NEW r, Keeps(r0, r), NEW exit, NEW calls
  PROVE  /\ Keeps(r0, Done(r, exit)) /\ Keeps(r0, Fail(r))
         /\ Keeps(r0, Become(r, calls)) /\ Keeps(r0, Continue(r)) /\ Keeps(r0, Instead(r, calls))
<1>1. Keeps(r0, Done(r, exit)) /\ Keeps(r0, Done(r, "failure")) /\ Keeps(r0, Done(r, "success"))
  BY DEF Keeps, CliFields, Done, NotRun
<1>2. \A left_calls : Keeps(r0, Become(r, left_calls))
  BY <1>1 DEF Become, Keeps, CliFields
<1> QED BY <1>1, <1>2 DEF Fail, Continue, Instead

\* It keeps it when it gets an object.
LEMMA GotKeeps ==
  ASSUME NEW r0, NEW r, Keeps(r0, r), NEW type, NEW id
  PROVE  Keeps(r0, Got(r, type, id))
BY DEF Keeps, CliFields, Got

\* A call to the cluster keeps it, whether it succeeds or fails.
LEMMA CallKeeps ==
  ASSUME NEW c, NEW can, NEW store, NEW s, NEW f, Keeps(cli[c], s), Keeps(cli[c], f),
         Call(c, can, store, s, f)
  PROVE  \E r : Keeps(cli[c], r) /\ Step(c, r)
BY DEF Call

\* So does what is done without a call.
LEMMA HereKeeps ==
  ASSUME NEW c, NEW s, Keeps(cli[c], s), Here(c, s)
  PROVE  \E r : Keeps(cli[c], r) /\ Step(c, r)
BY DEF Here

\* Every call of cli_invoke keeps the request of the invocation that makes it.
LEMMA InvokeKeeps ==
  ASSUME NEW c, DOMAIN cli[c] = CliFields, cli_invoke(c)
  PROVE  \E r : Keeps(cli[c], r) /\ Step(c, r)
<1> DEFINE Goal == \E r : Keeps(cli[c], r) /\ Step(c, r)
<1>1. Keeps(cli[c], cli[c]) /\ Keeps(cli[c], Fail(cli[c])) /\ Keeps(cli[c], Continue(cli[c]))
  BY EndsKeep DEF Keeps
<1>2. \A type, id : Keeps(cli[c], Continue(Got(cli[c], type, id)))
  BY <1>1, GotKeeps, EndsKeep
<1>3. \A out : Keeps(cli[c], Continue([cli[c] EXCEPT !.out = out]))
  <2>1. \A out : Keeps(cli[c], [cli[c] EXCEPT !.out = out])
    BY <1>1 DEF Keeps, CliFields
  <2> QED BY <2>1, EndsKeep
<1>4. \A data : LET r == [cli[c] EXCEPT !.data = data] IN
        Keeps(cli[c], Continue(r)) /\ \A calls : Keeps(cli[c], Instead(r, calls))
  <2>1. \A data : Keeps(cli[c], [cli[c] EXCEPT !.data = data])
    BY <1>1 DEF Keeps, CliFields
  <2> QED BY <2>1, EndsKeep
<1>5. \A type, ids : Keeps(cli[c], Continue(Listed(c, type, ids)))
  <2>1. \A type, ids : Keeps(cli[c], Listed(c, type, ids))
    BY <1>1 DEF Keeps, CliFields, Listed
  <2> QED BY <2>1, EndsKeep
<1>6. \A calls : Keeps(cli[c], Become(cli[c], calls)) /\ Keeps(cli[c], Instead(cli[c], calls))
  BY <1>1, EndsKeep
<1> HIDE DEF Goal
<1>7. \A id : Find(c, id) \/ Create(c, id) => Goal
  BY <1>1, <1>2, CallKeeps DEF Goal, Find, Create
<1>8. \A can, dict : Update(c, can, dict) => Goal
  BY <1>1, CallKeeps DEF Goal, Update
<1>9. \A can, s : Keeps(cli[c], s) /\ Read(c, can, s) => Goal
  BY <1>1, CallKeeps DEF Goal, Read
<1>10. \A can, type, ids : List(c, can, type, ids) => Goal
  BY <1>1, <1>5, CallKeeps DEF Goal, List
<1>11. get_object(c) \/ get_by_id(c) \/ get_command(c) \/ add_object(c) \/ new_command(c) => Goal
  BY <1>7 DEF get_object, get_by_id, get_command, add_object, new_command
<1>12. is_valid(c) => Goal
  BY <1>3, CallKeeps DEF Goal, is_valid
<1>13. deserialize(c) => Goal
  BY <1>1, <1>4, HereKeeps DEF Goal, deserialize
<1>14. new_object(c) \/ new_service_instance(c) \/ delete_object(c) => Goal
  BY <1>1, <1>2, CallKeeps DEF Goal, new_object, new_service_instance, delete_object
<1>15. add_attr(c) \/ set_attr(c) \/ del_attr(c) \/ set_all(c) => Goal
  BY <1>8 DEF add_attr, set_attr, del_attr, set_all
<1>16. get_attr(c) \/ get_keys(c) \/ get_all(c) \/ get_holders(c) \/ take_all(c) => Goal
  BY <1>1, <1>3, <1>4, <1>9 DEF get_attr, get_keys, get_all, get_holders, take_all
<1>17. data_or_parent(c) => Goal
  BY <1>6, HereKeeps DEF Goal, data_or_parent
<1>18. get_parent(c) => Goal
  BY <1>1, <1>2, CallKeeps DEF Goal, get_parent
<1>19. clone_planned_state(c) => Goal
  BY <1>1, <1>4, CallKeeps DEF Goal, clone_planned_state
<1>20. print_instance(c) \/ return_failure(c) \/ generateid(c) \/ print_list(c) => Goal
  BY <1>1, <1>3, HereKeeps DEF Goal, print_instance, return_failure, generateid, print_list
<1>21. check_nodes(c) \/ clear(c) => Goal
  BY <1>1, CallKeeps DEF Goal, check_nodes, clear
<1>22. Objects_of(c) \/ children(c) \/ children_by_id(c) \/ slavenodes(c) => Goal
  BY <1>10 DEF Objects_of, children, children_by_id, slavenodes
<1>23. each(c) => Goal
  <2> SUFFICES ASSUME each(c) PROVE Goal
    OBVIOUS
  <2> DEFINE Into_loop(id) == [Got(cli[c], Type(c), id) EXCEPT !.found[Type(c)] = @ \ {id},
                                                            !.calls = Head(@).body \o @]
  <2>1. \A id : Keeps(cli[c], Into_loop(id))
    BY <1>1, GotKeeps DEF Keeps, CliFields
  <2> HIDE DEF Into_loop
  <2>2. Here(c, Continue(cli[c])) \/ \E id : Here(c, Into_loop(id))
    BY DEF each, Into_loop
  <2> QED BY <1>1, <2>1, <2>2, HereKeeps DEF Goal
<1>24. all_or_of_slavenode(c) => Goal
  BY <1>6, HereKeeps DEF Goal, all_or_of_slavenode
<1>25. get_state(c) => Goal
  BY <1>1, <1>6, CallKeeps, HereKeeps DEF Goal, get_state
<1>26. get_port(c) => Goal
  <2>1. \A placed : Keeps(cli[c], [cli[c] EXCEPT !.placed = placed])
    BY <1>1 DEF Keeps, CliFields
  <2>2. \A placed : Keeps(cli[c], Continue([cli[c] EXCEPT !.placed = placed]))
    BY <2>1, EndsKeep
  <2> QED BY <2>2, HereKeeps DEF Goal, get_port
<1>27. Goal
  BY <1>11, <1>12, <1>13, <1>14, <1>15, <1>16, <1>17, <1>18, <1>19, <1>20, <1>21, <1>22, <1>23,
     <1>24, <1>25, <1>26 DEF cli_invoke
<1> QED BY <1>27 DEF Goal

\* Only a running invocation makes calls.
LEMMA InvokeRuns == ASSUME NEW c, cli_invoke(c) PROVE Running(c)
BY DEF cli_invoke, At, get_object, get_by_id, get_command, is_valid, deserialize, new_object,
   new_service_instance, add_object, new_command, delete_object, add_attr, set_attr, del_attr,
   set_all, get_attr, get_keys, get_all, get_holders, take_all, data_or_parent, get_parent,
   clone_planned_state, print_instance, return_failure, generateid, check_nodes, clear, Objects_of,
   children, children_by_id, slavenodes, each, print_list, all_or_of_slavenode, get_state, get_port

\* An invocation with a good request, for a type of g_meta if it runs.
Asked(r) ==
  DOMAIN r = CliFields /\ Good(r.request) /\ (r.pc = "running" => r.request.type \in DOMAIN g_meta)

\* A client that runs nothing is in order.
LEMMA NotRunIsAsked == Asked(NotRun) /\ NotRun.pc = "idle"
BY NewIsGood DEF Asked, NotRun, CliFields

\* main() begins an invocation whose request is what the parser returns.
LEMMA MainAsks ==
  ASSUME NEW c, NEW line, Len(line.opts) \in Nat, main(c, line)
  PROVE  \E r : Asked(r) /\ Step(c, r)
<1> DEFINE request == cli_parse_options(line)
           r == [NotRun EXCEPT !.pc = "running", !.request = request, !.before = Stated]
<1>1. Good(request) /\ (request.error = "" => request.type \in DOMAIN g_meta)
  BY ParsedIsGood DEF IsOf
<1> HIDE DEF request
<1>2. DOMAIN r = CliFields /\ r.request = request
  BY DEF NotRun, CliFields
<1>3. Asked(Fail(r))
  <2>1. Keeps(r, Fail(r))
    BY <1>2, EndsKeep DEF Keeps
  <2>2. Fail(r).pc = "done"
    BY DEF Fail, Done, NotRun
  <2> QED BY <1>1, <1>2, <2>1, <2>2 DEF Asked, Keeps
<1>4. request.error = "" => \A calls : Asked([r EXCEPT !.calls = calls])
  BY <1>1, <1>2 DEF Asked, CliFields
<1>5. \/ Step(c, Fail(r))
      \/ request.error = "" /\ \E calls : Step(c, [r EXCEPT !.calls = calls])
  <2>1. \/ Here(c, Fail(r))
        \/ /\ request.error = ""
           /\ Call(c, TRUE, objects, [r EXCEPT !.calls = g_meta[line.type][line.action].impl], Fail(r))
    BY DEF main, request
  <2> HIDE DEF r
  <2> QED BY <2>1 DEF Call, Here
<1> HIDE DEF r
<1> QED BY <1>3, <1>4, <1>5
-----------------------------------------------------------------------------
\* Where a push can be: its step is one of its script's, and a full index has
\* no counter.
ScriptFields == {"push", "pc", "read", "todo", "instance", "HAS_FAILURE", "exit"}
Counting == {"deployment_next_partition", "partition_count", "set counter"}
Preparing == {"timestamp", "version", "hdfs_path", "index_partition_id", "list", "each"}
Deploying == {"future_timestamp", "future_index_version", "future_location"}
Switching == {"online_timestamp", "online_index_version", "online_location", "set online"}

OnScript(s) ==
  /\ DOMAIN s = ScriptFields
  /\ IF s.push.action = "register"
     THEN s.pc \in {"idle", "deployment_policy", "index add", "end"} \cup Counting
          /\ (s.pc \in Counting => Incremental(s))
     ELSE s.pc \in {"idle"} \cup Preparing \cup IF s.push.action = "deploy" THEN Deploying ELSE Switching

\* What comes after an element of a sequence without repetitions.
LEMMA AfterOf ==
  ASSUME NEW n \in Nat, NEW seq, DOMAIN seq = 1..n,
         \A i, j \in 1..n : seq[i] = seq[j] => i = j
  PROVE  \A i \in 1..n : After(seq, seq[i]) = seq[i + 1]
BY DEF After

\* What the script of an index push does after each of its steps.
LEMMA Afters ==
  /\ After(RegisterIncremental, "deployment_policy") = "deployment_next_partition"
  /\ After(RegisterIncremental, "deployment_next_partition") = "index add"
  /\ After(RegisterIncremental, "index add") = "partition_count"
  /\ After(RegisterIncremental, "partition_count") = "set counter"
  /\ After(RegisterIncremental, "set counter") = "end"
  /\ After(RegisterFull, "deployment_policy") = "index add" /\ After(RegisterFull, "index add") = "end"
  /\ \A pc \in Preparing \ {"each"} : After(Prepare, pc) \in Preparing
  /\ \A pc \in Deploying : After(Deploy, pc) \in Deploying \cup {"each"}
  /\ \A pc \in Switching : After(Switch, pc) \in Switching \cup {"each"}
<1>1. \A i \in 1..6 : After(RegisterIncremental, RegisterIncremental[i]) = RegisterIncremental[i + 1]
  <2>1. DOMAIN RegisterIncremental = 1..6
        /\ \A i, j \in 1..6 : RegisterIncremental[i] = RegisterIncremental[j] => i = j
    BY DEF RegisterIncremental
  <2> QED BY <2>1, AfterOf
<1>2. \A i \in 1..3 : After(RegisterFull, RegisterFull[i]) = RegisterFull[i + 1]
  <2>1. DOMAIN RegisterFull = 1..3 /\ \A i, j \in 1..3 : RegisterFull[i] = RegisterFull[j] => i = j
    BY DEF RegisterFull
  <2> QED BY <2>1, AfterOf
<1>3. \A i \in 1..6 : After(Prepare, Prepare[i]) = Prepare[i + 1]
  <2>1. DOMAIN Prepare = 1..6 /\ \A i, j \in 1..6 : Prepare[i] = Prepare[j] => i = j
    BY DEF Prepare
  <2> QED BY <2>1, AfterOf
<1>4. \A i \in 1..4 : After(Deploy, Deploy[i]) = Deploy[i + 1]
  <2>1. DOMAIN Deploy = 1..4 /\ \A i, j \in 1..4 : Deploy[i] = Deploy[j] => i = j
    BY DEF Deploy
  <2> QED BY <2>1, AfterOf
<1>5. \A i \in 1..5 : After(Switch, Switch[i]) = Switch[i + 1]
  <2>1. DOMAIN Switch = 1..5 /\ \A i, j \in 1..5 : Switch[i] = Switch[j] => i = j
    BY DEF Switch
  <2> QED BY <2>1, AfterOf
<1>6. /\ After(RegisterIncremental, "deployment_policy") = "deployment_next_partition"
      /\ After(RegisterIncremental, "deployment_next_partition") = "index add"
      /\ After(RegisterIncremental, "index add") = "partition_count"
      /\ After(RegisterIncremental, "partition_count") = "set counter"
      /\ After(RegisterIncremental, "set counter") = "end"
  <2>1. /\ RegisterIncremental[1] = "deployment_policy" /\ RegisterIncremental[2] = "deployment_next_partition"
        /\ RegisterIncremental[3] = "index add" /\ RegisterIncremental[4] = "partition_count"
        /\ RegisterIncremental[5] = "set counter" /\ RegisterIncremental[6] = "end"
    BY DEF RegisterIncremental
  <2>2. /\ After(RegisterIncremental, RegisterIncremental[1]) = RegisterIncremental[2] /\ After(RegisterIncremental, RegisterIncremental[2]) = RegisterIncremental[3]
        /\ After(RegisterIncremental, RegisterIncremental[3]) = RegisterIncremental[4] /\ After(RegisterIncremental, RegisterIncremental[4]) = RegisterIncremental[5]
        /\ After(RegisterIncremental, RegisterIncremental[5]) = RegisterIncremental[6]
    BY <1>1
  <2> QED BY <2>1, <2>2
<1>7. After(RegisterFull, "deployment_policy") = "index add" /\ After(RegisterFull, "index add") = "end"
  <2>1. RegisterFull[1] = "deployment_policy" /\ RegisterFull[2] = "index add" /\ RegisterFull[3] = "end"
    BY DEF RegisterFull
  <2>2. /\ After(RegisterFull, RegisterFull[1]) = RegisterFull[2] /\ After(RegisterFull, RegisterFull[2]) = RegisterFull[3]
    BY <1>2
  <2> QED BY <2>1, <2>2
<1>8. \A pc \in Preparing \ {"each"} : After(Prepare, pc) \in Preparing
  <2>1. /\ Prepare[1] = "timestamp" /\ Prepare[2] = "version" /\ Prepare[3] = "hdfs_path"
        /\ Prepare[4] = "index_partition_id" /\ Prepare[5] = "list" /\ Prepare[6] = "each"
    BY DEF Prepare
  <2>2. /\ After(Prepare, Prepare[1]) = Prepare[2] /\ After(Prepare, Prepare[2]) = Prepare[3]
        /\ After(Prepare, Prepare[3]) = Prepare[4] /\ After(Prepare, Prepare[4]) = Prepare[5]
        /\ After(Prepare, Prepare[5]) = Prepare[6]
    BY <1>3
  <2> QED BY <2>1, <2>2 DEF Preparing
<1>9. \A pc \in Deploying : After(Deploy, pc) \in Deploying \cup {"each"}
  <2>1. /\ Deploy[1] = "future_timestamp" /\ Deploy[2] = "future_index_version"
        /\ Deploy[3] = "future_location" /\ Deploy[4] = "each"
    BY DEF Deploy
  <2>2. /\ After(Deploy, Deploy[1]) = Deploy[2] /\ After(Deploy, Deploy[2]) = Deploy[3]
        /\ After(Deploy, Deploy[3]) = Deploy[4]
    BY <1>4
  <2>3. /\ After(Deploy, "future_timestamp") = "future_index_version"
        /\ After(Deploy, "future_index_version") = "future_location"
        /\ After(Deploy, "future_location") = "each"
    BY <2>1, <2>2
  <2> QED BY <2>3 DEF Deploying
<1>10. \A pc \in Switching : After(Switch, pc) \in Switching \cup {"each"}
  <2>1. /\ Switch[1] = "online_timestamp" /\ Switch[2] = "online_index_version"
        /\ Switch[3] = "online_location" /\ Switch[4] = "set online" /\ Switch[5] = "each"
    BY DEF Switch
  <2>2. /\ After(Switch, Switch[1]) = Switch[2] /\ After(Switch, Switch[2]) = Switch[3]
        /\ After(Switch, Switch[3]) = Switch[4] /\ After(Switch, Switch[4]) = Switch[5]
    BY <1>5
  <2>3. /\ After(Switch, "online_timestamp") = "online_index_version"
        /\ After(Switch, "online_index_version") = "online_location"
        /\ After(Switch, "online_location") = "set online" /\ After(Switch, "set online") = "each"
    BY <2>1, <2>2
  <2> QED BY <2>3 DEF Switching
<1> QED BY <1>6, <1>7, <1>8, <1>9, <1>10

\* The command of a step is a command line.
IsSeq(seq) == \E S : seq \in Seq(S)

\* Sequences one after the other make a sequence.
LEMMA Concatenated ==
  ASSUME NEW a, NEW b, IsSeq(a), IsSeq(b)
  PROVE  IsSeq(a \o b)
<1>1. PICK S, T : a \in Seq(S) /\ b \in Seq(T)
  BY DEF IsSeq
<1>2. a \in Seq(S \cup T) /\ b \in Seq(S \cup T)
  BY <1>1
<1> QED BY <1>2, ConcatProperties DEF IsSeq

\* Short tuples are sequences.
LEMMA Tuples ==
  ASSUME NEW a, NEW b
  PROVE  IsSeq(<<>>) /\ IsSeq(<<a>>) /\ IsSeq(<<a, b>>)
<1>1. <<>> \in Seq({a, b}) /\ <<a>> \in Seq({a, b}) /\ <<a, b>> \in Seq({a, b})
  OBVIOUS
<1> QED BY <1>1 DEF IsSeq

\* The attributes that a deployment sets.
LEMMA DeploySetsDomain ==
  DOMAIN DeploySets = {"future_timestamp", "future_index_version", "future_location"}
<1> DEFINE one == "future_timestamp" :> "timestamp"
           two == one @@ "future_index_version" :> "version"
<1>1. DOMAIN one = {"future_timestamp"} /\ DOMAIN two = DOMAIN one \cup {"future_index_version"}
  BY OfOne, AddedKey
<1>2. DeploySets = two @@ "future_location" :> "hdfs_path"
  BY DEF DeploySets
<1> HIDE DEF one, two
<1>3. DOMAIN (two @@ "future_location" :> "hdfs_path") = DOMAIN two \cup {"future_location"}
  BY AddedKey
<1> QED BY <1>1, <1>2, <1>3

\* The command line of each step of an index push is a sequence of options.
LEMMA CommandLen ==
  ASSUME NEW s, OnScript(s), s.pc \notin {"idle", "each", "end"}
  PROVE  Len(CommandOf(s).opts) \in Nat
<1>1. \A seq : IsSeq(seq) => Len(seq) \in Nat
  BY DEF IsSeq
<1>2. /\ \A type, id, key : IsSeq(Get(type, id, key).opts)
      /\ \A key : IsSeq(GetPlanned(s, key).opts)
      /\ \A key, value : IsSeq(KV(key, value))
      /\ \A v, future : IsSeq(Backup(s, v, future))
  BY Tuples DEF Get, GetPlanned, KV, Backup, Line
<1>3. \A pairs : IsSeq(pairs) => IsSeq(SetPlanned(s, pairs).opts)
  BY Tuples, Concatenated DEF SetPlanned, Line
<1>4. DOMAIN DeploySets = {"future_timestamp", "future_index_version", "future_location"}
  BY DeploySetsDomain
<1>5. CASE s.pc \in TypeReads
  <2>1. CommandOf(s) = Get("index-type", s.push.index_type, s.pc)
    BY <1>4, <1>5 DEF CommandOf, TypeReads, IndexReads, BackupReads
  <2> QED BY <1>1, <1>2, <2>1
<1>6. CASE s.pc \in IndexReads
  <2>1. CommandOf(s) = Get("index", s.push.index_id, s.pc)
    BY <1>4, <1>6 DEF CommandOf, TypeReads, IndexReads, BackupReads
  <2> QED BY <1>1, <1>2, <2>1
<1>7. CASE s.pc \in DOMAIN DeploySets
  <2>1. CommandOf(s) = SetPlanned(s, KV(s.pc, Text(s, DeploySets[s.pc])))
    BY <1>4, <1>7 DEF CommandOf, TypeReads, IndexReads, BackupReads
  <2> QED BY <1>1, <1>2, <1>3, <2>1
<1>8. CASE s.pc \in BackupReads
  <2>1. CommandOf(s) = GetPlanned(s, s.pc)
    BY <1>4, <1>8 DEF CommandOf, TypeReads, IndexReads, BackupReads
  <2> QED BY <1>1, <1>2, <2>1
<1>9. CASE s.pc = "online_location"
  <2>1. CommandOf(s) = SetPlanned(s, <<<<"key", "online_location">>>>)
    BY <1>4, <1>9 DEF CommandOf, TypeReads, IndexReads, BackupReads
  <2> QED BY <1>1, <1>3, <2>1, Tuples
<1>10. CASE s.pc = "set online"
  <2> DEFINE pairs == KV("online_timestamp", Text(s, "timestamp"))
                      \o Backup(s, "online_timestamp", "future_timestamp")
                      \o KV("online_index_version", Text(s, "version"))
                      \o Backup(s, "online_index_version", "future_index_version")
                      \o KV("online_location", Text(s, "hdfs_path"))
                      \o Backup(s, "online_location", "future_location")
  <2>1. IsSeq(pairs)
    BY <1>2, Concatenated
  <2>2. CommandOf(s) = SetPlanned(s, pairs)
    BY <1>4, <1>10 DEF CommandOf, TypeReads, IndexReads, BackupReads
  <2> QED BY <1>1, <1>3, <2>1, <2>2
<1>11. CASE s.pc \in {"index add", "list"}
  <2>1. IsSeq(CommandOf(s).opts)
    BY <1>4, <1>11, Tuples DEF CommandOf, TypeReads, IndexReads, BackupReads, Line
  <2> QED BY <1>1, <2>1
<1>12. CASE s.pc = "set counter"
  <2> DEFINE type == <<<<"index-type-id", s.push.index_type>>>>
             counter == KV("deployment_next_partition", NextPartition(s))
  <2>1. CommandOf(s) = Line("index-type", "set-meta-attr", type \o counter)
    BY <1>4, <1>12 DEF CommandOf, TypeReads, IndexReads, BackupReads
  <2>2. IsSeq(type \o counter)
    BY <1>2, Tuples, Concatenated
  <2> HIDE DEF type, counter
  <2> QED BY <1>1, <2>1, <2>2 DEF Line
<1> QED
  BY <1>4, <1>5, <1>6, <1>7, <1>8, <1>9, <1>10, <1>11, <1>12
     DEF OnScript, Counting, Preparing, Deploying, Switching, TypeReads, IndexReads, BackupReads

\* Once a command has returned the script goes on.
LEMMA NextIsOnScript ==
  ASSUME NEW s, OnScript(s), s.pc \notin {"idle", "each", "end"}
  PROVE  OnScript([s EXCEPT !.pc = NextPc(s)])
<1> DEFINE t == [s EXCEPT !.pc = NextPc(s)]
<1>1. DOMAIN t = ScriptFields /\ t.push = s.push /\ t.read = s.read /\ t.pc = NextPc(s)
  BY DEF OnScript, ScriptFields
<1>2. Incremental(t) <=> Incremental(s)
  BY <1>1 DEF Incremental, Text
<1> HIDE DEF t
<1>3. CASE s.push.action = "register"
  <2>1. NextPc(s) = After(IF Incremental(s) THEN RegisterIncremental ELSE RegisterFull, s.pc)
    BY <1>3 DEF NextPc
  <2>2. s.pc \in {"deployment_policy", "index add"} \cup Counting /\ (s.pc \in Counting => Incremental(s))
    BY <1>3 DEF OnScript
  <2>3. CASE Incremental(s)
    <3>1. t.pc = After(RegisterIncremental, s.pc)
      BY <1>1, <2>1, <2>3
    <3>2. t.pc \in {"index add", "end"} \cup Counting
      BY <2>2, <3>1, Afters DEF Counting
    <3> QED BY <1>1, <1>2, <1>3, <2>3, <3>2 DEF OnScript, t
  <2>4. CASE ~Incremental(s)
    <3>1. t.pc = After(RegisterFull, s.pc)
      BY <1>1, <2>1, <2>4
    <3>2. t.pc \in {"index add", "end"}
      BY <2>2, <2>4, <3>1, Afters
    <3> QED BY <1>1, <1>3, <3>2 DEF OnScript, Counting, t
  <2> QED BY <2>3, <2>4
<1>4. CASE s.push.action # "register"
  <2>1. s.pc \in Preparing \/ s.pc \in IF s.push.action = "deploy" THEN Deploying ELSE Switching
    BY <1>4 DEF OnScript
  <2>2. {Prepare[i] : i \in 1..5} = Preparing \ {"each"}
    <3>1. /\ Prepare[1] = "timestamp" /\ Prepare[2] = "version" /\ Prepare[3] = "hdfs_path"
          /\ Prepare[4] = "index_partition_id" /\ Prepare[5] = "list"
      BY DEF Prepare
    <3>2. \A i \in 1..5 : i = 1 \/ i = 2 \/ i = 3 \/ i = 4 \/ i = 5
      OBVIOUS
    <3> QED BY <3>1, <3>2 DEF Preparing
  <2>3. CASE s.pc \in Preparing
    <3>1. NextPc(s) = After(Prepare, s.pc)
      BY <1>4, <2>2, <2>3 DEF NextPc
    <3>2. t.pc \in Preparing
      BY <1>1, <2>3, <3>1, Afters
    <3> QED BY <1>1, <1>4, <3>2 DEF OnScript, t
  <2>4. CASE s.pc \notin Preparing
    <3>1. NextPc(s) = After(BodyOf(s.push), s.pc)
      BY <1>4, <2>2, <2>4 DEF NextPc
    <3>2. t.pc \in {"each"} \cup IF s.push.action = "deploy" THEN Deploying ELSE Switching
      <4>1. CASE s.push.action = "deploy"
        <5>1. t.pc = After(Deploy, s.pc) /\ s.pc \in Deploying
          BY <1>1, <2>1, <2>4, <3>1, <4>1 DEF BodyOf
        <5> QED BY <4>1, <5>1, Afters
      <4>2. CASE s.push.action # "deploy"
        <5>1. t.pc = After(Switch, s.pc) /\ s.pc \in Switching
          BY <1>1, <2>1, <2>4, <3>1, <4>2 DEF BodyOf
        <5> QED BY <4>2, <5>1, Afters
      <4> QED BY <4>1, <4>2
    <3>3. t.pc \in Preparing \cup IF s.push.action = "deploy" THEN Deploying ELSE Switching
      BY <3>2 DEF Preparing
    <3> QED BY <1>1, <1>4, <3>3 DEF OnScript, t
  <2> QED BY <2>3, <2>4
<1> QED BY <1>3, <1>4

\* What the script reads from a command leaves it on the same step.
LEMMA RememberIsOnScript ==
  ASSUME NEW c, NEW s, OnScript(s), s.pc \notin {"idle", "each", "end"}
  PROVE  LET r == Remember(c, s) IN OnScript(r) /\ r.pc = s.pc /\ r.push = s.push
<1> DEFINE r == Remember(c, s)
           one == s.pc :> cli[c].out
           old == s.read
           read == one @@ old
<1>1. DOMAIN r = ScriptFields /\ r.pc = s.pc /\ r.push = s.push /\ r.read = read
  BY DEF OnScript, ScriptFields, Remember
<1>2. DOMAIN one = {s.pc}
  BY OfOne
<1>3. DOMAIN read = DOMAIN one \cup DOMAIN old /\ \A k \in DOMAIN old \ DOMAIN one : read[k] = old[k]
  <2> HIDE DEF one, old
  <2> QED BY OfBoth
<1> HIDE DEF r, read, one
<1>4. s.pc # "deployment_policy" => (Incremental(r) <=> Incremental(s))
  BY <1>1, <1>2, <1>3 DEF Incremental, Text
<1>5. OnScript(r)
  BY <1>1, <1>4 DEF OnScript, Counting
<1> QED BY <1>1, <1>5 DEF r

\* Registering an index has no loop over the instances.
LEMMA InLoopOnly ==
  ASSUME NEW s, OnScript(s), s.pc \in InLoop
  PROVE  s.push.action # "register"
BY DeploySetsDomain DEF OnScript, InLoop, Counting

\* A script that exits is idle.
LEMMA ExitIsOnScript ==
  ASSUME NEW s, NEW status
  PROVE  LET r == [NotPushing EXCEPT !.push = s.push, !.exit = status] IN OnScript(r) /\ r.pc = "idle"
BY DEF OnScript, NotPushing, ScriptFields, Counting

\* A push begins at the first step of its script.
LEMMA BeginIsOnScript ==
  ASSUME NEW push
  PROVE  LET r == [NotPushing EXCEPT !.push = push,
                     !.pc = IF push.action = "register" THEN "deployment_policy" ELSE Prepare[1]]
         IN OnScript(r) /\ r.pc \notin {"idle", "each", "end"}
<1>1. Prepare[1] = "timestamp"
  BY DEF Prepare
<1> QED BY <1>1 DEF OnScript, NotPushing, ScriptFields, Counting, Preparing
-----------------------------------------------------------------------------
\* Every invocation has been asked something good, every push is somewhere on
\* its script, and it runs no command at the head of its loop or at its end.
WellAsked ==
  /\ scenario \in DOMAIN Scenarios
  /\ cli = [c \in Clients |-> cli[c]] /\ script = [c \in Clients |-> script[c]]
  /\ \A c \in Clients :
       /\ Asked(cli[c]) /\ OnScript(script[c])
       /\ script[c].pc \in {"each", "end"} => cli[c].pc = "idle"

\* At first nobody runs anything.
LEMMA InitWellAsked == Init => WellAsked
<1>1. OnScript(NotPushing) /\ NotPushing.pc = "idle"
  BY DEF NotPushing, OnScript, ScriptFields, Counting
<1> QED BY <1>1, NotRunIsAsked DEF Init, ZkctlInit, PushInit, WellAsked

\* A step that changes one client's invocation and push, and both for a good one.
LEMMA OneWellAsked ==
  ASSUME WellAsked, NEW c \in Clients, NEW r, NEW s, Asked(r), OnScript(s),
         s.pc \in {"each", "end"} => r.pc = "idle",
         cli' = [cli EXCEPT ![c] = r], script' = [script EXCEPT ![c] = s], scenario' = scenario
  PROVE  WellAsked'
BY DEF WellAsked

\* Every invocation stays a request the parser returned, and every push at a step of
\* its script.
LEMMA StepWellAsked == WellAsked /\ [Next]_vars => WellAsked'
<1> SUFFICES ASSUME WellAsked, [Next]_vars PROVE WellAsked'
  OBVIOUS
<1>1. CASE UNCHANGED vars
  BY <1>1 DEF WellAsked, vars
<1>2. ASSUME NEW c \in Clients, BeginCommand(c) PROVE WellAsked'
  <2>1. PICK line \in Scenarios[scenario].lines[c] : main(c, line)
    BY <1>2 DEF BeginCommand
  <2>2. Len(line.opts) \in Nat
    BY <2>1, ScenarioAssumption DEF WellAsked
  <2>3. PICK r : Asked(r) /\ Step(c, r)
    BY <2>1, <2>2, MainAsks
  <2>4. OnScript(script[c]) /\ script[c].pc = "idle" /\ script' = [script EXCEPT ![c] = script[c]] /\ scenario' = scenario
    BY <1>2 DEF BeginCommand, Pushing, Spend, WellAsked
  <2> QED BY <2>3, <2>4, OneWellAsked DEF Step
<1>3. ASSUME NEW c \in Clients, cli_invoke(c), UNCHANGED <<script, scenario, left>> PROVE WellAsked'
  <2>1. Running(c) /\ Asked(cli[c])
    BY <1>3, InvokeRuns DEF WellAsked
  <2>2. PICK r : Keeps(cli[c], r) /\ Step(c, r)
    BY <1>3, <2>1, InvokeKeeps DEF Asked
  <2>3. Asked(r)
    BY <2>1, <2>2 DEF Asked, Keeps, Running
  <2>4. /\ OnScript(script[c]) /\ script[c].pc \notin {"each", "end"}
        /\ script' = [script EXCEPT ![c] = script[c]] /\ scenario' = scenario
    BY <1>3, <2>1 DEF Running, WellAsked
  <2> QED BY <2>2, <2>3, <2>4, OneWellAsked DEF Step
<1>4. ASSUME NEW c \in Clients, BeginPush(c) PROVE WellAsked'
  <2>1. PICK push \in Scenarios[scenario].pushes[c] : Begin(c, push)
    BY <1>4 DEF BeginPush
  <2> DEFINE s == [NotPushing EXCEPT !.push = push,
                     !.pc = IF push.action = "register" THEN "deployment_policy" ELSE Prepare[1]]
  <2>2. cli' = [cli EXCEPT ![c] = NotRun] /\ script' = [script EXCEPT ![c] = s] /\ scenario' = scenario
    BY <1>4, <2>1 DEF BeginPush, Begin, Spend
  <2>3. OnScript(s) /\ s.pc \notin {"idle", "each", "end"}
    BY BeginIsOnScript
  <2> HIDE DEF s
  <2> QED BY <2>2, <2>3, NotRunIsAsked, OneWellAsked
<1>5. ASSUME NEW c \in Clients, index_push(c), UNCHANGED <<scenario, left>> PROVE WellAsked'
  <2> DEFINE s == script[c]
  <2>1. Asked(cli[c]) /\ OnScript(s) /\ (s.pc \in {"each", "end"} => cli[c].pc = "idle")
    BY DEF WellAsked
  <2>2. cli = [cli EXCEPT ![c] = cli[c]]
    BY DEF WellAsked
  <2>3. CASE invoke(c)
    <3>1. s.pc \notin {"idle", "each", "end"} /\ main(c, CommandOf(s)) /\ script' = script
      BY <2>3 DEF invoke, Pushing
    <3>2. PICK r : Asked(r) /\ Step(c, r)
      BY <2>1, <3>1, CommandLen, MainAsks
    <3>3. script' = [script EXCEPT ![c] = s]
      BY <3>1 DEF WellAsked
    <3> QED BY <1>5, <2>1, <3>1, <3>2, <3>3, OneWellAsked DEF Step
  <2>4. CASE returned(c)
    <3>1. s.pc \notin {"idle", "each", "end"} /\ cli' = [cli EXCEPT ![c] = NotRun]
      BY <2>1, <2>4 DEF returned, Pushing
    <3>2. \A t : OnScript(t) /\ script' = [script EXCEPT ![c] = t] => WellAsked'
      BY <1>5, <3>1, NotRunIsAsked, OneWellAsked
    <3>3. CASE Proceed(c, s)
      BY <2>1, <3>1, <3>2, <3>3, NextIsOnScript DEF Proceed
    <3>4. CASE Proceed(c, Remember(c, s))
      <4>1. OnScript(Remember(c, s)) /\ Remember(c, s).pc = s.pc
        BY <2>1, <3>1, RememberIsOnScript
      <4> QED BY <3>1, <3>2, <3>4, <4>1, NextIsOnScript DEF Proceed
    <3>5. CASE s.pc \in InLoop /\ script' = [script EXCEPT ![c].pc = "each", ![c].HAS_FAILURE = 1]
      <4> DEFINE t == [s EXCEPT !.pc = "each", !.HAS_FAILURE = 1]
      <4>1. s.push.action # "register"
        BY <2>1, <3>5, InLoopOnly
      <4>2. OnScript(t)
        BY <2>1, <4>1 DEF OnScript, ScriptFields, Preparing
      <4>3. script' = [script EXCEPT ![c] = t]
        BY <3>5 DEF WellAsked
      <4> QED BY <3>2, <4>2, <4>3
    <3>6. CASE Exit(c, s, "failure")
      BY <3>2, <3>6, ExitIsOnScript DEF Exit
    <3> QED BY <2>4, <3>3, <3>4, <3>5, <3>6 DEF returned
  <2>5. CASE loop(c)
    <3>1. s.pc = "each" /\ cli' = [cli EXCEPT ![c] = cli[c]] /\ cli[c].pc = "idle" /\ s.push.action # "register"
      BY <2>1, <2>2, <2>5 DEF loop, OnScript, Counting
    <3>2. \A t : OnScript(t) /\ script' = [script EXCEPT ![c] = t] => WellAsked'
      BY <1>5, <2>1, <3>1, OneWellAsked
    <3>3. \A status : Exit(c, s, status) => WellAsked'
      BY <3>2, ExitIsOnScript DEF Exit
    <3>4. ASSUME NEW i, NEW todo,
                 script' = [script EXCEPT ![c].instance = i, ![c].pc = BodyOf(s.push)[1],
                              ![c].todo = todo \ {i},
                              ![c].read = [v \in DOMAIN @ \cap IndexReads |-> @[v]]]
          PROVE  WellAsked'
      <4> DEFINE t == [s EXCEPT !.instance = i, !.pc = BodyOf(s.push)[1], !.todo = todo \ {i},
                                !.read = [v \in DOMAIN s.read \cap IndexReads |-> s.read[v]]]
      <4>1. BodyOf(s.push)[1] \in IF s.push.action = "deploy" THEN Deploying ELSE Switching
        BY DEF BodyOf, Deploy, Switch, Deploying, Switching
      <4>2. OnScript(t)
        BY <2>1, <3>1, <4>1 DEF OnScript, ScriptFields
      <4>3. script' = [script EXCEPT ![c] = t]
        BY <3>4 DEF WellAsked
      <4> QED BY <3>2, <4>2, <4>3
    <3> QED BY <2>5, <3>3, <3>4 DEF loop
  <2>6. CASE finish(c)
    <3>1. cli' = [cli EXCEPT ![c] = cli[c]] /\ cli[c].pc = "idle" /\ Exit(c, s, "success")
      BY <2>1, <2>2, <2>6 DEF finish
    <3> QED BY <1>5, <2>1, <3>1, ExitIsOnScript, OneWellAsked DEF Exit
  <2> QED BY <1>5, <2>3, <2>4, <2>5, <2>6 DEF index_push
<1>6. ASSUME NEW c \in Clients, Kill(c), UNCHANGED <<script, scenario, left>> PROVE WellAsked'
  <2>1. Asked(cli[c]) /\ Running(c) /\ Step(c, Done(cli[c], "killed"))
    BY <1>6 DEF Kill, Here, WellAsked
  <2>2. Keeps(cli[c], Done(cli[c], "killed")) /\ Done(cli[c], "killed").pc = "done"
    BY <2>1, EndsKeep DEF Asked, Keeps, Done, NotRun
  <2>3. Asked(Done(cli[c], "killed"))
    BY <2>1, <2>2 DEF Asked, Keeps
  <2>4. /\ OnScript(script[c]) /\ script[c].pc \notin {"each", "end"}
        /\ script' = [script EXCEPT ![c] = script[c]] /\ scenario' = scenario
    BY <1>6, <2>1 DEF Running, WellAsked
  <2> QED BY <2>1, <2>3, <2>4, OneWellAsked DEF Step
<1>7. ASSUME NEW c \in Clients, KillPush(c), UNCHANGED <<scenario, left>> PROVE WellAsked'
  <2>1. Exit(c, script[c], "killed") /\ scenario' = scenario
    BY <1>7 DEF KillPush
  <2>2. PICK r : Asked(r) /\ cli' = [cli EXCEPT ![c] = r]
    <3>1. Asked(cli[c]) /\ cli = [cli EXCEPT ![c] = cli[c]]
      BY DEF WellAsked
    <3> QED BY <1>7, <3>1, NotRunIsAsked DEF KillPush
  <2> QED BY <2>1, <2>2, ExitIsOnScript, OneWellAsked DEF Exit
<1> QED BY <1>1, <1>2, <1>3, <1>4, <1>5, <1>6, <1>7 DEF Next

\* Each invocation runs what the parser made of its command line, and each push is at
\* a step of its script.
LEMMA AlwaysWellAsked == Spec => []WellAsked
BY InitWellAsked, StepWellAsked, PTL DEF Spec

\* No option that the table of any action lets through is unknown to the
\* parser, whatever command lines the clients run.
THEOREM CodeCheckedHolds == Spec => []CodeChecked
<1>1. WellAsked => CodeChecked
  BY DEF WellAsked, CodeChecked, Asked, Good
<1> QED BY <1>1, AlwaysWellAsked, PTL

\* A command is carried out on the object that the option of its own type
\* names, whatever options are given in whatever order (cli_process_option).
THEOREM NamesItsObjectHolds == Spec => []NamesItsObject
<1>1. WellAsked => NamesItsObject
  <2> SUFFICES ASSUME WellAsked, NEW c \in Clients, Running(c),
                      cli[c].request.type \o "-id" \in option2var
               PROVE  cli[c].request.object_id = cli[c].request.vars[cli[c].request.type \o "-id"]
    BY DEF NamesItsObject
  <2>1. Good(cli[c].request) /\ cli[c].request.type \in DOMAIN g_meta
    BY DEF WellAsked, Asked, Running
  <2>2. <<cli[c].request.type, cli[c].request.type \o "-id">> \in OwnOptions
    BY <2>1, NamesAssumption DEF Known
  <2> QED BY <2>1, <2>2 DEF Good
<1> QED BY <1>1, AlwaysWellAsked, PTL
-----------------------------------------------------------------------------
(***************************************************************************)
(* What a step of zkctl.bin can be: which call is made, what it can do to  *)
(* the cluster and how the invocation goes on.                             *)
(***************************************************************************)

\* What a call can do to the cluster: nothing, set a part of an object or its
\* next number, create an object, delete one, or leave just the root.
Changed(k, p, d) == objects' = [objects EXCEPT ![k].parts[p] = d]
Numbered(k, n) == objects' = [objects EXCEPT ![k].next = n]
Created(k, node) ==
  k = <<k[1], k[2]>> /\ k \notin DOMAIN objects /\ objects' = k :> Object(Empty, node) @@ objects
Deleted(k) == objects' = [j \in DOMAIN objects \ {k} |-> objects[j]]
Cleared == objects' = <<"cluster", "">> :> Object(Empty, "")

Stores ==
  \/ objects' = objects
  \/ \E k \in DOMAIN objects : (\E p, d : Changed(k, p, d)) \/ (\E n : Numbered(k, n)) \/ Deleted(k)
  \/ \E k, node : Created(k, node)
  \/ Cleared

\* A call changes the cluster only if it can have its effect.
LEMMA CallStores ==
  ASSUME NEW c, NEW can, NEW store, NEW s, NEW f, Call(c, can, store, s, f)
  PROVE  objects' = objects \/ (can /\ objects' = store)
BY DEF Call

\* Calls that only read, and steps that make none, leave the cluster as it is.
LEMMA ReadingStores ==
  ASSUME NEW c
  PROVE  /\ \A can, s, f : Call(c, can, objects, s, f) => objects' = objects
         /\ \A s : Here(c, s) => objects' = objects
BY DEF Call, Here

\* Every call of cli_invoke changes the cluster in one of these ways.
LEMMA InvokeStores == ASSUME NEW c, cli_invoke(c) PROVE Stores
<1>1. get_object(c) \/ get_by_id(c) \/ get_command(c) => Stores
  BY ReadingStores DEF get_object, get_by_id, get_command, Find, Stores
<1>2. is_valid(c) \/ deserialize(c) \/ new_object(c) => Stores
  BY ReadingStores DEF is_valid, deserialize, new_object, Stores
<1>3. new_service_instance(c) => Stores
  <2> SUFFICES ASSUME new_service_instance(c) PROVE Stores
    OBVIOUS
  <2> DEFINE key == <<"service", Obj(c, "service")>>
             n == objects[key].next + 1
  <2>1. \/ objects' = objects
        \/ key \in DOMAIN objects /\ objects' = [objects EXCEPT ![key].next = @ + 1]
    BY CallStores DEF new_service_instance, Exists
  <2>2. [objects EXCEPT ![key].next = @ + 1] = [objects EXCEPT ![key].next = n]
    OBVIOUS
  <2> HIDE DEF key, n
  <2> QED BY <2>1, <2>2 DEF Stores, Numbered
<1>4. add_object(c) \/ new_command(c) => Stores
  <2>1. ASSUME NEW id, Create(c, id) PROVE Stores
    <3> DEFINE key == <<Type(c), id>>
               node == IF Type(c) = "service-instance" THEN Obj(c, "slavenode") ELSE ""
               store == key :> Object(Empty, node) @@ objects
    <3>1. Call(c, key \notin DOMAIN objects /\ (Type(c) \in DOMAIN ParentType => Parents(Type(c), id) # {}),
               store, Continue(Got(cli[c], Type(c), id)), Fail(cli[c]))
      BY <2>1 DEF Create, Exists
    <3> HIDE DEF store
    <3>2. objects' = objects \/ (key \notin DOMAIN objects /\ objects' = store)
      BY <3>1, CallStores
    <3>3. key = <<key[1], key[2]>>
      OBVIOUS
    <3> HIDE DEF key, node
    <3> QED BY <3>2, <3>3 DEF Stores, Created, store
  <2> QED BY <2>1 DEF add_object, new_command
<1>5. delete_object(c) => Stores
  <2> SUFFICES ASSUME delete_object(c) PROVE Stores
    OBVIOUS
  <2>1. \/ objects' = objects
        \/ Exists(Type(c), Obj(c, Type(c))) /\ Deleted(<<Type(c), Obj(c, Type(c))>>)
    BY CallStores DEF delete_object, Deleted
  <2> QED BY <2>1 DEF Stores, Exists
<1>6. ASSUME NEW can, NEW dict, Update(c, can, dict) PROVE Stores
  <2> DEFINE key == <<Type(c), Obj(c, Type(c))>>
  <2>1. objects' = objects \/ (key \in DOMAIN objects /\ Changed(key, Part(c), dict))
    BY <1>6, CallStores DEF Update, Exists, With, Changed
  <2> HIDE DEF key
  <2> QED BY <2>1 DEF Stores
<1>7. add_attr(c) \/ set_attr(c) \/ del_attr(c) \/ set_all(c) => Stores
  BY <1>6 DEF add_attr, set_attr, del_attr, set_all
<1>8. get_attr(c) \/ get_keys(c) \/ get_all(c) \/ get_holders(c) \/ take_all(c) => Stores
  BY ReadingStores DEF get_attr, get_keys, get_all, get_holders, take_all, Read, Stores
<1>9. data_or_parent(c) \/ get_parent(c) \/ clone_planned_state(c) \/ print_instance(c) => Stores
  BY ReadingStores DEF data_or_parent, get_parent, clone_planned_state, print_instance, Stores
<1>10. return_failure(c) \/ generateid(c) \/ check_nodes(c) => Stores
  BY ReadingStores DEF return_failure, generateid, check_nodes, Stores
<1>11. clear(c) => Stores
  BY CallStores DEF clear, Stores, Cleared
<1>12. Objects_of(c) \/ children(c) \/ children_by_id(c) \/ slavenodes(c) => Stores
  BY ReadingStores DEF Objects_of, children, children_by_id, slavenodes, List, Stores
<1>13. each(c) \/ print_list(c) \/ all_or_of_slavenode(c) => Stores
  BY ReadingStores DEF each, print_list, all_or_of_slavenode, Stores
<1>14. get_state(c) \/ get_port(c) => Stores
  BY ReadingStores DEF get_state, get_port, Stores
<1> QED BY <1>1, <1>2, <1>3, <1>4, <1>5, <1>7, <1>8, <1>9, <1>10, <1>11, <1>12, <1>13, <1>14 DEF cli_invoke

\* A command begins: it fails at once, or runs what the table says.
Begun(r) ==
  /\ DOMAIN r = CliFields /\ r.pc = "running"
  /\ r.request.type \in DOMAIN g_meta /\ r.request.action \in DOMAIN g_meta[r.request.type]
  /\ r.calls = g_meta[r.request.type][r.request.action].impl
  /\ r.obj = Empty /\ r.found = [t \in {} |-> {}] /\ r.placed = {} /\ r.before = Stated
Refused(r) == DOMAIN r = CliFields /\ r.pc = "done" /\ r.exit = "failure"

\* main() fails at once, or begins with the calls that the table gives for the action;
\* the cluster stays as it is.
LEMMA MainBegins ==
  ASSUME NEW c, NEW line, Len(line.opts) \in Nat, main(c, line)
  PROVE  \E r : (Begun(r) \/ Refused(r)) /\ Step(c, r) /\ objects' = objects
<1> DEFINE request == cli_parse_options(line)
           r == [NotRun EXCEPT !.pc = "running", !.request = request, !.before = Stated]
           impl == g_meta[line.type][line.action].impl
<1>1. /\ request.type = line.type /\ request.action = line.action
      /\ request.error = "" => line.type \in DOMAIN g_meta /\ line.action \in DOMAIN g_meta[line.type]
  BY ParsedIsGood DEF IsOf
<1>2. main(c, line) =>
        \/ Here(c, Fail(r))
        \/ request.error = "" /\ Call(c, TRUE, objects, [r EXCEPT !.calls = impl], Fail(r))
  BY DEF main
<1> HIDE DEF request
<1>3. Refused(Fail(r))
  BY DEF Refused, Fail, Done, NotRun, CliFields
<1>4. request.error = "" => Begun([r EXCEPT !.calls = impl])
  BY <1>1 DEF Begun, NotRun, CliFields
<1> HIDE DEF r, impl
<1> QED BY <1>2, <1>3, <1>4 DEF Call, Here
-----------------------------------------------------------------------------
\* Every object has its parts.
StoreOK ==
  \A k \in DOMAIN objects :
    k = <<k[1], k[2]>> /\ DOMAIN objects[k] = {"parts", "node", "next"} /\ DOMAIN objects[k].parts = Parts

\* A new object has its parts.
LEMMA ObjectOK ==
  ASSUME NEW node
  PROVE  LET o == Object(Empty, node) IN DOMAIN o = {"parts", "node", "next"} /\ DOMAIN o.parts = Parts
<1> DEFINE none == [p \in Parts |-> Empty]
           o == Object(Empty, node)
<1>1. DOMAIN (Empty @@ none) = DOMAIN Empty \cup DOMAIN none
  <2>1. \A f, g : DOMAIN (f @@ g) = DOMAIN f \cup DOMAIN g
    BY OfBoth
  <2> QED BY <2>1
<1>2. DOMAIN o = {"parts", "node", "next"} /\ o.parts = Empty @@ none
  BY DEF Object
<1> HIDE DEF o
<1>3. DOMAIN o.parts = Parts
  BY <1>1, <1>2 DEF Empty
<1> QED BY <1>2, <1>3 DEF o

\* A step leaves the objects whole, and those that stay are where they were.
LEMMA StoresKeep ==
  ASSUME StoreOK, Stores
  PROVE  /\ StoreOK'
         /\ \A k \in DOMAIN objects : k \in DOMAIN objects' /\ k[1] # "cluster" => objects'[k].node = objects[k].node
<1> DEFINE Goal == /\ StoreOK'
                   /\ \A k \in DOMAIN objects :
                        k \in DOMAIN objects' /\ k[1] # "cluster" => objects'[k].node = objects[k].node
<1>1. CASE objects' = objects
  BY <1>1 DEF StoreOK
<1>2. ASSUME NEW k \in DOMAIN objects, NEW p, NEW d, Changed(k, p, d) PROVE Goal
  <2>1. DOMAIN objects' = DOMAIN objects /\ \A j \in DOMAIN objects : j # k => objects'[j] = objects[j]
    BY <1>2 DEF Changed
  <2>2. objects'[k] = [objects[k] EXCEPT !.parts[p] = d]
    BY <1>2 DEF Changed
  <2>3. DOMAIN objects'[k] = {"parts", "node", "next"} /\ objects'[k].node = objects[k].node
        /\ DOMAIN objects'[k].parts = Parts
    BY <2>2 DEF StoreOK
  <2> QED BY <2>1, <2>3 DEF StoreOK
<1>3. ASSUME NEW k \in DOMAIN objects, NEW n, Numbered(k, n) PROVE Goal
  <2>1. DOMAIN objects' = DOMAIN objects /\ \A j \in DOMAIN objects : j # k => objects'[j] = objects[j]
    BY <1>3 DEF Numbered
  <2>2. objects'[k] = [objects[k] EXCEPT !.next = n]
    BY <1>3 DEF Numbered
  <2>3. DOMAIN objects'[k] = {"parts", "node", "next"} /\ objects'[k].node = objects[k].node
        /\ DOMAIN objects'[k].parts = Parts
    BY <2>2 DEF StoreOK
  <2> QED BY <2>1, <2>3 DEF StoreOK
<1>4. ASSUME NEW k \in DOMAIN objects, Deleted(k) PROVE Goal
  BY <1>4 DEF StoreOK, Deleted
<1>5. ASSUME NEW k, NEW node, Created(k, node) PROVE Goal
  <2> DEFINE o == Object(Empty, node)
             one == k :> o
             old == objects
  <2>1. DOMAIN one = {k} /\ one[k] = o
    BY OfOne
  <2>2. /\ DOMAIN (one @@ old) = DOMAIN one \cup DOMAIN old
        /\ \A j \in DOMAIN one : (one @@ old)[j] = one[j]
        /\ \A j \in DOMAIN old \ DOMAIN one : (one @@ old)[j] = old[j]
    <3> HIDE DEF one, old
    <3> QED BY OfBoth
  <2>3. k = <<k[1], k[2]>> /\ k \notin DOMAIN objects /\ objects' = one @@ old
    BY <1>5 DEF Created
  <2>4. DOMAIN o = {"parts", "node", "next"} /\ DOMAIN o.parts = Parts
    BY ObjectOK
  <2> HIDE DEF one, o
  <2> QED BY <2>1, <2>2, <2>3, <2>4 DEF StoreOK
<1>6. CASE Cleared
  <2> DEFINE k == <<"cluster", "">>
             o == Object(Empty, "")
  <2>1. objects' = k :> o
    BY <1>6 DEF Cleared
  <2>2. DOMAIN o = {"parts", "node", "next"} /\ DOMAIN o.parts = Parts
    BY ObjectOK
  <2>3. k[1] = "cluster" /\ k = <<k[1], k[2]>>
    OBVIOUS
  <2> HIDE DEF k, o
  <2>4. DOMAIN objects' = {k} /\ objects'[k] = o
    BY <2>1, OfOne
  <2> QED BY <2>2, <2>3, <2>4 DEF StoreOK
<1> QED BY <1>1, <1>2, <1>3, <1>4, <1>5, <1>6 DEF Stores

\* A step that leaves the cluster alone is one of these ways, too.
LEMMA StoredWhenUnchanged == objects' = objects => Stores
BY DEF Stores

\* A step is of one client: it begins a command, makes a call of it, is killed
\* or reads the result; or the command is of no concern.
LEMMA StepCases ==
  ASSUME WellAsked, [Next]_vars
  PROVE  /\ faults' = faults
         /\ \/ objects' = objects /\ cli' = cli
            \/ \E c \in Clients :
                 /\ \E r : cli' = [cli EXCEPT ![c] = r]
                 /\ \/ objects' = objects /\ (Begun(cli'[c]) \/ Refused(cli'[c]) \/ cli'[c] = NotRun)
                    \/ objects' = objects /\ Running(c) /\ cli'[c] = Done(cli[c], "killed")
                    \/ cli_invoke(c) /\ Keeps(cli[c], cli'[c])
<1> DEFINE Of(c) ==
      /\ \E r : cli' = [cli EXCEPT ![c] = r]
      /\ \/ objects' = objects /\ (Begun(cli'[c]) \/ Refused(cli'[c]) \/ cli'[c] = NotRun)
         \/ objects' = objects /\ Running(c) /\ cli'[c] = Done(cli[c], "killed")
         \/ cli_invoke(c) /\ Keeps(cli[c], cli'[c])
    Goal == faults' = faults /\ ((objects' = objects /\ cli' = cli) \/ \E c \in Clients : Of(c))
<1>1. \A c \in Clients : \A r : cli' = [cli EXCEPT ![c] = r] => cli'[c] = r
  BY DEF WellAsked
<1>2. ASSUME UNCHANGED vars PROVE Goal
  BY <1>2 DEF vars
<1>3. ASSUME NEW c \in Clients, NEW line, Len(line.opts) \in Nat, main(c, line) PROVE Goal
  BY <1>1, <1>3, MainBegins DEF Step
<1>4. ASSUME NEW c \in Clients, BeginCommand(c) PROVE Goal
  <2>1. PICK line \in Scenarios[scenario].lines[c] : main(c, line)
    BY <1>4 DEF BeginCommand
  <2>2. Len(line.opts) \in Nat
    BY <2>1, ScenarioAssumption DEF WellAsked
  <2> QED BY <1>3, <2>1, <2>2
<1>5. ASSUME NEW c \in Clients, cli_invoke(c) PROVE Goal
  <2>1. PICK r : Keeps(cli[c], r) /\ Step(c, r)
    BY <1>5, InvokeKeeps DEF WellAsked, Asked
  <2> QED BY <1>1, <1>5, <2>1 DEF Step
<1>6. ASSUME NEW c \in Clients, cli' = [cli EXCEPT ![c] = NotRun], UNCHANGED <<objects, faults>> PROVE Goal
  BY <1>1, <1>6
<1>7. ASSUME NEW c \in Clients, Kill(c) PROVE Goal
  BY <1>1, <1>7 DEF Kill, Here, Step
<1>8. ASSUME NEW c \in Clients, index_push(c) PROVE Goal
  <2>1. CASE invoke(c)
    <3>1. main(c, CommandOf(script[c])) /\ OnScript(script[c]) /\ script[c].pc \notin {"idle", "each", "end"}
      BY <2>1 DEF invoke, Pushing, WellAsked
    <3> QED BY <1>3, <3>1, CommandLen
  <2>2. CASE returned(c)
    BY <1>6, <2>2 DEF returned
  <2>3. CASE loop(c) \/ finish(c)
    BY <2>3 DEF loop, finish
  <2> QED BY <1>8, <2>1, <2>2, <2>3 DEF index_push
<1>9. ASSUME NEW c \in Clients, BeginPush(c) PROVE Goal
  BY <1>6, <1>9 DEF BeginPush, Begin
<1>10. ASSUME NEW c \in Clients, KillPush(c) PROVE Goal
  BY <1>6, <1>10 DEF KillPush
<1> HIDE DEF Goal
<1>11. ASSUME Next PROVE Goal
  <2>1. PICK c \in Clients : BeginCommand(c) \/ cli_invoke(c) \/ BeginPush(c) \/ index_push(c) \/ Kill(c) \/ KillPush(c)
    BY <1>11 DEF Next
  <2> QED BY <2>1, <1>4, <1>5, <1>7, <1>8, <1>9, <1>10
<1>12. Goal
  BY <1>2, <1>11
<1> QED BY <1>12 DEF Goal

\* A call is made by the action of its name.
LEMMA WhichCall ==
  ASSUME NEW c, cli_invoke(c)
  PROVE  LET name == Head(cli[c].calls).call IN
         /\ Running(c)
         /\ name = "objects" => Objects_of(c)
         /\ name = "children" => children(c)
         /\ name = "each" => each(c)
         /\ name = "get_all" => get_all(c)
         /\ name = "slavenodes" => slavenodes(c)
         /\ name = "get_state" => get_state(c)
         /\ name = "get_port" => get_port(c)
         /\ name = "get_by_id" => get_by_id(c)
         /\ name = "deserialize" => deserialize(c)
         /\ name = "new_object" => new_object(c)
         /\ name = "new_service_instance" => new_service_instance(c)
         /\ name = "add_object" => add_object(c)
         /\ name = "new_command" => new_command(c)
         /\ name = "set_all" => set_all(c)
         /\ name = "data_or_parent" => data_or_parent(c)
         /\ name = "clone_planned_state" => clone_planned_state(c)
         /\ name = "print_instance" => print_instance(c)
<1> DEFINE name == Head(cli[c].calls).call
<1>1. /\ get_object(c) => name = "get_object"
      /\ get_by_id(c) => name = "get_by_id"
      /\ get_command(c) => name = "get_command"
      /\ is_valid(c) => name = "is_valid"
      /\ deserialize(c) => name = "deserialize"
      /\ new_object(c) => name = "new_object"
      /\ new_service_instance(c) => name = "new_service_instance"
      /\ add_object(c) => name = "add_object"
      /\ new_command(c) => name = "new_command"
      /\ delete_object(c) => name = "delete_object"
      /\ add_attr(c) => name = "add_attr"
      /\ set_attr(c) => name = "set_attr"
      /\ del_attr(c) => name = "del_attr"
      /\ set_all(c) => name = "set_all"
  BY DEF At, get_object, get_by_id, get_command, is_valid, deserialize, new_object,
     new_service_instance, add_object, new_command, delete_object, add_attr, set_attr, del_attr, set_all
<1>2. /\ get_attr(c) => name = "get_attr"
      /\ get_keys(c) => name = "get_keys"
      /\ get_all(c) => name = "get_all"
      /\ get_holders(c) => name = "get_holders"
      /\ take_all(c) => name = "take_all"
      /\ data_or_parent(c) => name = "data_or_parent"
      /\ get_parent(c) => name = "get_parent"
      /\ clone_planned_state(c) => name = "clone_planned_state"
      /\ print_instance(c) => name = "print_instance"
      /\ return_failure(c) => name = "return_failure"
      /\ generateid(c) => name = "generateid"
      /\ check_nodes(c) => name = "check_nodes"
      /\ clear(c) => name = "clear"
  BY DEF At, get_attr, get_keys, get_all, get_holders, take_all, data_or_parent, get_parent,
     clone_planned_state, print_instance, return_failure, generateid, check_nodes, clear
<1>3. /\ Objects_of(c) => name = "objects"
      /\ children(c) => name = "children"
      /\ children_by_id(c) => name = "children_by_id"
      /\ slavenodes(c) => name = "slavenodes"
      /\ each(c) => name = "each"
      /\ print_list(c) => name = "print_list"
      /\ all_or_of_slavenode(c) => name = "all_or_of_slavenode"
      /\ get_state(c) => name = "get_state"
      /\ get_port(c) => name = "get_port"
  BY DEF At, Objects_of, children, children_by_id, slavenodes, each, print_list, all_or_of_slavenode,
     get_state, get_port
<1>4. Running(c)
  BY InvokeRuns
<1> HIDE DEF name
<1>5. /\ name = "objects" => Objects_of(c)
      /\ name = "children" => children(c)
      /\ name = "each" => each(c)
      /\ name = "get_all" => get_all(c)
      /\ name = "slavenodes" => slavenodes(c)
      /\ name = "get_state" => get_state(c)
      /\ name = "get_port" => get_port(c)
      /\ name = "get_by_id" => get_by_id(c)
      /\ name = "deserialize" => deserialize(c)
      /\ name = "new_object" => new_object(c)
      /\ name = "new_service_instance" => new_service_instance(c)
      /\ name = "add_object" => add_object(c)
      /\ name = "new_command" => new_command(c)
      /\ name = "set_all" => set_all(c)
      /\ name = "data_or_parent" => data_or_parent(c)
      /\ name = "clone_planned_state" => clone_planned_state(c)
      /\ name = "print_instance" => print_instance(c)
  BY <1>1, <1>2, <1>3 DEF cli_invoke
<1> QED BY <1>4, <1>5 DEF name

-----------------------------------------------------------------------------
Failed(s) == s.pc = "done" /\ s.exit = "failure"

\* A step of a client is its invocation's.
LEMMA OwnStep ==
  ASSUME WellAsked, NEW c \in Clients, NEW s
  PROVE  /\ Step(c, s) => cli'[c] = s
         /\ Here(c, s) => cli'[c] = s /\ objects' = objects
BY DEF WellAsked, Step, Here

\* A call has an effect and succeeds, or fails, or fails although it had it.
LEMMA Outcomes ==
  ASSUME WellAsked, NEW c \in Clients, NEW can, NEW store, NEW s, NEW f, Call(c, can, store, s, f)
  PROVE  \/ can /\ cli'[c] = s /\ objects' = store
         \/ cli'[c] = f /\ (objects' = objects \/ (can /\ objects' = store))
BY OwnStep DEF Call

\* A call that does not fail for no reason.
LEMMA CallOutcomes ==
  ASSUME WellAsked, "fail" \notin faults, NEW c \in Clients, NEW can, NEW store, NEW s, NEW f, Call(c, can, store, s, f)
  PROVE  \/ can /\ cli'[c] = s /\ objects' = store
         \/ ~can /\ cli'[c] = f /\ objects' = objects
BY OwnStep DEF Call

\* An invocation without calls left is done, with success; one with calls makes them.
LEMMA Onward ==
  ASSUME NEW r, DOMAIN r = CliFields, NEW calls
  PROVE  LET s == Become(r, calls) IN
         /\ s.placed = r.placed
         /\ calls = <<>> => s.pc = "done" /\ s.exit = "success"
         /\ calls # <<>> => /\ s.pc = r.pc /\ s.calls = calls /\ s.obj = r.obj
                            /\ s.found = r.found /\ s.data = r.data
<1>1. CASE calls = <<>>
  BY <1>1 DEF Become, Done, NotRun, CliFields
<1>2. CASE calls # <<>>
  BY <1>2 DEF Become, CliFields
<1> QED BY <1>1, <1>2

\* An invocation that goes on after its first call keeps what it knows.
LEMMA Continued ==
  ASSUME NEW r, DOMAIN r = CliFields, Tail(r.calls) # <<>>
  PROVE  LET s == Become(r, Tail(r.calls)) IN
         /\ s.pc = r.pc /\ s.calls = Tail(r.calls) /\ s.obj = r.obj
         /\ s.found = r.found /\ s.data = r.data /\ s.placed = r.placed
<1> DEFINE t == Tail(r.calls)
           s == Become(r, t)
<1> HIDE DEF t
<1>1. t # <<>>
  BY DEF t
<1>2. /\ s.pc = r.pc /\ s.calls = t /\ s.obj = r.obj
      /\ s.found = r.found /\ s.data = r.data /\ s.placed = r.placed
  BY <1>1, Onward
<1> QED BY <1>2 DEF t

\* Fail ends an invocation with failure.
LEMMA FailFails ==
  ASSUME NEW r
  PROVE  Failed(Fail(r))
BY DEF Failed, Fail, Done, NotRun

\* Done ends an invocation with the status given.
LEMMA DoneEnds ==
  ASSUME NEW r, NEW exit
  PROVE  Done(r, exit).pc = "done" /\ Done(r, exit).exit = exit
BY DEF Done, NotRun
=============================================================================
