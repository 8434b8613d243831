--------------------------- MODULE ZkctlOptions ---------------------------
(***************************************************************************)
(* How zkctl.bin reads its command line into a cli_request.                *)
(***************************************************************************)
EXTENDS ZkctlMeta, Naturals, FiniteSets

\* A command line: object, action, and the options as <<name, argument>> or,
\* without an argument, <<name>>.  Only the last may lack an argument it takes,
\* for getopt_long takes what follows for the argument.
Line(type, action, opts) == [type |-> type, action |-> action, opts |-> opts]

\* The options with a member of cli_request of their own.
object_ids == {"idc-id", "group-id", "slavenode-id", "index-type-id", "index-partition-id",
               "index-id", "service-id", "service-instance-id", "command-id", "job-id",
               "dyndata-id", "dyndata-meta-id"}

\* Mutant: an option of the table is forgotten, as a new one may be.
option2var_incomplete == object_ids \cup {"data", "pretty"}

option2var == object_ids \cup {"data", "resource-num", "pretty"}

cli_request(line) ==
  [type |-> line.type, action |-> line.action, vars |-> [n \in option2var |-> ""],
   keys |-> {}, key_values |-> <<>>, key |-> "", object_id |-> "",
   specified |-> {}, error |-> ""]

IsPrefix(a, b) == Len(a) <= Len(b) /\ SubSeq(b, 1, Len(a)) = a

\* What strings are is computed by TLC only; for the proofs it is spelled out:
\* each type and its own option, and the options of other types that begin with
\* the type, too.
OwnOptions ==
  {<<"idc", "idc-id">>, <<"group", "group-id">>, <<"slavenode", "slavenode-id">>,
   <<"index-type", "index-type-id">>, <<"index-partition", "index-partition-id">>,
   <<"index", "index-id">>, <<"service", "service-id">>,
   <<"service-instance", "service-instance-id">>, <<"command", "command-id">>, <<"job", "job-id">>,
   <<"dyndata", "dyndata-id">>, <<"dyndata-meta", "dyndata-meta-id">>}
AlsoBegin ==
  {<<"index", "index-type-id">>, <<"index", "index-partition-id">>,
   <<"service", "service-instance-id">>, <<"dyndata", "dyndata-meta-id">>}
Known == option2var \cup {"key", "value"}

ASSUME NamesAssumption ==
  \A T \in DOMAIN g_meta, name \in Known :
    /\ name = T \o "-id" <=> <<T, name>> \in OwnOptions
    /\ IsPrefix(T, name) <=> <<T, name>> \in OwnOptions \cup AlsoBegin

Into(request, name, value) ==
  IF name \in option2var THEN [request EXCEPT !.vars[name] = value]
  ELSE CASE name = "key"   -> [request EXCEPT !.key = value, !.keys = @ \cup {value}]
         [] name = "value" -> [request EXCEPT !.key_values = (request.key :> value) @@ @]
         [] OTHER          -> [request EXCEPT !.error = "pls check code"]

\* Mutants: the prefix is tested the other way round; a value replaces those
\* of the other keys.
cli_process_option_reversed(request, name, value) ==
  IF IsPrefix(name, request.type) THEN [Into(request, name, value) EXCEPT !.object_id = value]
                                  ELSE Into(request, name, value)
cli_process_option_last(request, name, value) ==
  LET r == Into(request, name, value)
  IN [r EXCEPT !.object_id = IF IsPrefix(request.type, name) THEN value ELSE @,
               !.key_values = IF name = "value" THEN request.key :> value ELSE @]

\* Any option that begins with the type names the object.
cli_process_option(request, name, value) ==
  IF IsPrefix(request.type, name) THEN [Into(request, name, value) EXCEPT !.object_id = value]
                                  ELSE Into(request, name, value)

\* getopt_long: an option's name or an abbreviation of just one, with an
\* argument if and only if it takes one; else '?'.
getopt_long(options, opt) ==
  LET exact == {i \in DOMAIN options : options[i].name = opt[1]}
      abbreviated == {i \in DOMAIN options : IsPrefix(opt[1], options[i].name)}
      named == IF exact # {} THEN exact ELSE abbreviated
  IN {options[i] : i \in {i \in named : Cardinality(named) = 1 /\ options[i].has_arg = (Len(opt) = 2)}}

ReadOption(request, options, opt) ==
  LET found == getopt_long(options, opt)
      o == CHOOSE o \in found : TRUE
  IN CASE request.error # "" -> request
       [] request.error = "" /\ found = {} -> [request EXCEPT !.error = "unkonw option"]
       [] OTHER -> [cli_process_option(request, o.name, IF o.has_arg THEN opt[2] ELSE "OK")
                                   EXCEPT !.specified = @ \cup {o.name}]

ReadOptions(line, options) ==
  LET read[n \in 0..Len(line.opts)] ==
        IF n = 0 THEN cli_request(line) ELSE ReadOption(read[n - 1], options, line.opts[n])
  IN read[Len(line.opts)]

Missing(request, options) ==
  {o \in {options[i] : i \in DOMAIN options} : o.required /\ o.name \notin request.specified}

cli_parse_options(line) ==
  CASE line.type \notin DOMAIN g_meta -> [cli_request(line) EXCEPT !.error = "is not a valid zk object"]
    [] line.type \in DOMAIN g_meta /\ line.action \notin DOMAIN g_meta[line.type] ->
         [cli_request(line) EXCEPT !.error = "doesn't support operation"]
    [] OTHER ->
         LET options == g_meta[line.type][line.action].options
             request == ReadOptions(line, options)
         IN IF request.error = "" /\ Missing(request, options) # {}
            THEN [request EXCEPT !.error = "missing option"] ELSE request
=============================================================================
