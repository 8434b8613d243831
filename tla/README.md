# Verification of the zkctl console

The repository is a collection of operations tools. Its core is `zkctl/`, the
console of a search cluster: an interpreter with a cluster lock (`zksh`), a
command line client for the objects kept in ZooKeeper (`zkctl.bin`), and the
scripts that compute, apply and commit placement plans (which slave node serves
which index partition) and push indexes. The Perl files beside it are small
report scripts.

## 1. The system

| component | state | operations | interacts through | what makes it correct |
|---|---|---|---|---|
| `zksh` (zksh.cpp, zksh.h) | two ZooKeeper semaphores `READ` and `WRITE`, a session, a child process | parse options, lock, fork the script, wait, unlock | semaphores; nested calls from scripts; the exit status | a write lock excludes every other lock; writers are not overtaken; success means the script succeeded; the lock comes back |
| `zkctl.bin` (zkctl.cpp, zkctl.h) | objects in ZooKeeper, each with dictionaries of attributes | parse the options against a table, then one implementation per type and action: add, del, list, get/set attributes, dump, semaphores | one process per command; several calls of the ZooKeeper wrapper per command | a command acts on the object it names; what succeeds is complete; a dump is the whole placement |
| `placement-plan generate` | a model of partitions, nodes and failure domains in memory | replicate, delete, move until balanced | stdin: dump, stdout: plan lines | ends; the replica counts are met; the two mirrored maps agree |
| `placement-plan apply` | jobs `plan_add`, `plan_del`; instances | ADD, DEL, MOVE | stdin: plan; the jobs | an instance is on one list; one instance of a partition per node |
| `placement-plan commit` | jobs, `plan_newlayer`, instance states | delete, start, mark, start new layers | the jobs; prints the groups to refresh | starts what is up, deletes only what is condemned and replaced, forgets nothing |
| `crontab_autocommit`, `connection_*` | the broker's connection | dump, generate, commit | runs commit, then replaces the connection | the connection follows the instances |
| `index_push`, `dyndata_push`, `binary_push` | index objects, planned states | register, deploy, switch | zkctl.bin, command by command | partitions are filled in turn; no instance is told to serve a mixture of two indexes; a success is one for every instance |
| `service-instance_*`, `blacklist_*`, `*_list` | none | print, compare, poll | zkctl.bin | - |
| Perl tools, init scripts | log files | reports | - | - |

Hard behaviours: processes that interleave one ZooKeeper call at a time and are
killed between two calls; cron runs with `-s` (no lock) beside an operator;
scripts that outlive their `zksh`; shell loops over lists read earlier; global
shell variables; error statuses that are not looked at. `PROJECT.json` lists the
hazards with their lines.

## 2. Modules

```
RWLock  <- implemented by -  ZkSh  <- ZkShProofs              MCZkSh
PlanStore <- PlanApply  \
          <- PlanCommit  - PlanSystem <- PlanProofs <- PlanServingProofs   MCPlan
Instances  <- implemented by - PlanSystem
Placement <- PlacementProofs                                  MCPlacement
Dictionaries, ZkctlHandlers <- ZkctlMeta <- ZkctlOptions <- Zkctl
              <- IndexPush <- ZkctlSystem                     MCZkctl
ZkctlSystem <- ZkctlProofs <- ZkctlDumpProofs
                           <- ZkctlAddProofs
```

**ZkSh** models `zksh`. Every element of `Procs` is a slot in which zksh is
invoked again and again; `pc[p]` names the call of `main`, `read_lock_zk` or
`write_lock_zk` it is about to make, and each action is one such call with its
error path. `Parent` says which invocations are made by the script of another
one. External: the semaphores (`Acquire`, `Release`), the session
(`SessionEnds`), the script (`ScriptEnds`). Option lists are sequences of
characters, since the last lock option wins and `-v` exits while the options are
being parsed. The faults are those of `FaultKinds`.

**RWLock** is the abstract readers-writer lock: enter as reader, enter as writer,
leave. `RW` in ZkSh maps it: a lock is granted from the last call of `lock_zk`
to the end of the script, or of the session.

**PlanStore** is the part of ZooKeeper the plan scripts share: instances (state,
node, whether up), the jobs and the connection. A call of `zkctl.bin` is a step.
Jobs are sets of keys; the value of a key is its partition, or `del` for the
members of `deletable`. Instance numbers are ZooKeeper's counter and are never
reused.

**PlanApply** turns each line of a plan into the sequence of calls still to be
made (`calls`); an action takes the first call and makes it. `Exit` ends the
script, or only the subshell that `$( )` opens inside a MOVE; `Return` gives up
the line.

**PlanCommit** keeps the shell variables of `placement-plan_commit` and of
`crontab_autocommit` in the record `sh`. `mark_one` compares `sh.PARTITION_ID`,
the variable that the script compares, not the one it has just read. The calls
that may fail follow the actions they belong to (`list_fails`, `isvalid_fails`
and so on): where the script does not look at the status it goes on with an
empty answer, else it exits.

**PlanSystem** runs both on one store with the agents that bring services up. A
behaviour keeps to one member of `Regimes`: whether apply and commit run under
`zksh -w` (`locked`; that this excludes them is what the zksh runs and theorems
show), what may go wrong (`mishaps`: kills, services that go down, failing calls
of the commit, new layers that never come up) and how many plans are applied.

**Instances** is what all this amounts to for a service instance: it is added on
a node where its partition has none, under a number never given out before, it is
started, condemned, deleted, one instance a step; under the lock it is deleted
only when condemned, and what is condemned is not started again unless scripts
are killed. `Life` in PlanSystem maps it: the instances are those of the store,
the two booleans come from the regime. It forgets the job lists, the lines and
calls, the shell variables, the agents and the connection.

**Placement** is `placement-plan_generate`, one step per plan line or loop
decision. The dump it reads is any member of `Dumps`. `partitions` and `nodes`
are the two maps `SlaveNode.partitions` and `IndexPartition.nodes`; `pc` names
the loop: `unbind` (full replacement), `partitions` with `under` and `over` for
one partition, `nodes` for the balancing; it ends `printed`, `oops` (no plan) or
`crashed`. Choices are made by comparing tuples, as in the code; where the code
falls back on a hash, an id or the address of an object, any of the candidates may
be chosen, but where it relies on the stability of `sort`, `Position`, the order
of `values()`, decides. `execute()` is modelled with its refusals (`Placed`):
placing where the partition is already changes nothing.

**ZkctlHandlers** is the part of zkctl.h and zkctl.cpp that says what an
implementation does: each is the sequence of calls it makes, since nearly all of
them are templates that differ in the type of object and the dictionary they are
about. **ZkctlMeta** is the table `g_meta`, row by row: for every type and action
the options it takes and its implementation. **ZkctlOptions** parses a command
line as `getopt_long` and `cli_process_option` do: abbreviations, missing and
superfluous arguments, the option that sets the object's id by a prefix, values
filed under the key given before them. **Dictionaries** has the operators on
dictionaries, `:>` and `@@`, with lemmas on what they return: those of the
standard module TLC have no definition that a proof could use.

**Zkctl** runs invocations beside each other on `objects`, one call per step:
`main` parses and connects, the other actions take the first call left and make
it. `Call` is every call of the wrapper: it takes place, or fails, and a failing
call may have taken effect with only the answer lost. External is what a call
does: the wrapper's library is not in the tree. From the handlers, messages and
scripts: meta and semaphore attributes can be set only if they are there and
added only if they are not, state attributes either way (`dyndata_push` relies on
it); an object's parent is found from its id; an object with children cannot be
deleted; lists come in any order. The scripts of `src/zkctl/test` agree.

**IndexPush** is `index_push`: each of its commands is a command line that Zkctl
parses and carries out; `script[c]` has the shell variables of the push that runs
as client `c`. A kill ends the script alone, whose last command then goes on by
itself, or both; the client's next push begins when that command has ended.
**ZkctlSystem** puts commands and pushes into scenarios: a
cluster, what may go wrong, and which client may run what how often.

**MCZkSh**, **MCPlan**, **MCPlacement** and **MCZkctl** give the constants their
values.

## 3. Runs

| run | question | bounds | properties |
|---|---|---|---|
| `zksh_lock` | is the protocol a readers-writer lock, through failed calls, kills and expiry? | 3 invocations, WRITE admits one and READ two | `TypeOK`, `WriteExclusion`, `ReadersShare`, `SuccessIsEarned`, `NoBarging`, `ImplementsRWLock` |
| `zksh_progress` | does every writer stop waiting for readers, and is WRITE free again and again? | 3 invocations, one nested; READ admits one | `WriterGetsThrough`, `WriteLockComesBack` |
| `zksh_fork_fails` | what does the caller see when `fork` fails? | 2 invocations | `SuccessIsEarned` violated |
| `plan_moves` | does moving keep a partition served, does it finish, and does a layer that never comes up hold it back? | 1 partition that moves, a new layer, 3 nodes; 3 plans under the lock, 2 with a layer that may never come up, 1 without the lock | `KeepsServing`, `PlanCompletes`, `OthersStart`, `ConnectionFollows` |
| `plan_any` | what does each regime keep of the lists, the placements and the marks? | 2 partitions (one a new layer), 2 nodes; under the lock 3 plans with services that go down, 2 with kills, 1 with failing calls; 2 without the lock, every interleaving, with kills | `TypeOK`, `ListsDisjoint`, `PlacedOnce`, `ForgotByMishap`, `StartedUnderLock`, `NoResurrection`, `OnlyCondemnedDeleted`, `ImplementsInstances` |
| `plan_marks` | whose instance does `mark_deletable` mark? | 2 partitions leave a node | `MarksOwnPartition` violated |
| `plan_forgets` | what does the commit forget when a call fails? | 1 plan under the lock | `OnlyGoneForgotten` violated |
| `plan_layers` | is a new layer started only when it is ready, under `-s`? | a new layer on 2 nodes | `StartedWasUp` violated |
| `placement` | does the planner end, and is its plan right? | 3 nodes in domains of 2 and 1, up to 3 partitions of 2 types, factors 0 to 3; nodes offline, instances condemned, or full replacement | `TypeOK`, `MapsAgree`, `ReplicasMet`, `EvenlyLoaded`, `NeverBelowFactor`, `Finishes` |
| `placement_readd` | can its plan be applied? | 3 nodes, 3 partitions, all running | `PlanApplicable` violated |
| `zkctl` | what may be relied on when a command, a dump or a push succeeds? | 2 clients, 9 scenarios, see below | `TypeOK`, `NamesItsObject`, `CodeChecked`, `AddedMeansComplete`, `DumpComplete`, `RoundRobin`, `OnlineWhole`, `DeployTakes` |
| `index_switch` | does a switch keep what was online? | 1 switch, 2 instances, nothing fails | `SwitchBacksUp` violated |

Three invocations are enough for a reader, a writer and one that barges in, or
for a killed holder and two others. Slots are reused, so that behaviours are not
cut off after one call each. The plan runs bound the plans applied (in the
regime) and the instances ever created (`MaxInstances`, which the guard of
`Create` keeps to; in the passing runs it is so large that no plan runs into
it). Two plans are needed for a plan that condemns what an earlier one has just
added; with two nodes an instance can move away and back.

The placement runs start from every placement of two partitions with instances
running and `TO_BE_DELETED` (all of three partitions when all are running), so
that partitions lack replicas and have too many, nodes are heavier by two and
more, and a domain has more to lose than the other. `CHECK_DEADLOCK FALSE` there
because the planner stops when it has printed its plan. `MaxActions` bounds the
plan in the two loops that could run for ever; `Finishes` would fail if a plan
that ends reached it.

The scenarios of `zkctl`: `table`, every action of `g_meta` on a cluster with an
object of each type, with every selection of its options in every order, with
unknown ids, keys and values, and lines with options abbreviated, unknown,
repeated or without an argument; `beside`, `killed` and `failing`, commands that
add and delete beside dumps and lists, without mishaps, with kills and with
failing calls; `registering` and `racing`, three registrations in a row and two
at once; `deploying`, `failing_switch` and `switching`, deploys and switches of
two indexes with failures and kills. Two clients suffice, since no command waits
for another and each property is about one command and what runs beside it; two
indexes are needed for a mixture, two instances for one that is missed, three
registrations for the counter of two partitions to come round. `CHECK_DEADLOCK
FALSE` because the clients stop when they have run what the scenario gives them.

Assumed in the plan modules: one `placement-plan_apply` at a time; all
partitions belong to one group; the name of no partition is part of another's,
so that `grep` finds what it is meant to find (placement-plan_apply:163 would
find `wdnb_11` as well as `wdnb_1`); one `crontab_autocommit` at a time; an
agent reports a service up or down at any time.

### Findings

- `zksh_fork_fails`: when `fork()` returns -1, `waitpid(-1)` returns -1 too, the
  loop takes it for the child, and zksh exits with success (zksh.cpp:411-438).
- `plan_marks`: `mark_deletable` reads `PARTITION_id` and compares
  `PARTITION_ID`. With two partitions moving, the start of one marks the old
  instance of the other, which the next commit deletes although its replacement
  is not up (placement-plan_commit:96-98).
- `plan_layers`: after the readiness check `plan_add` is read again; under `-s`,
  as cron runs it, an instance that was listed in between is started unchecked
  (placement-plan_commit:230-245).
- `placement_readd`: balancing may move a partition back to the node it has been
  deleted from, because the planner forgets what it deletes; `exit_if_exist` in
  apply finds the condemned instance and drops the rest of the plan
  (placement-plan_generate:528, placement-plan_apply:82-91).
- `plan_forgets`: `isvalid` prints "invalid" and succeeds for any error
  (zkctl.cpp:2187), and `local` would hide its status: a failed read takes an
  existing instance off both jobs (placement-plan_commit:168-181).
- `index_switch`: the third backup is read with `set-planned-state-attr
  --key=online_location`, which fails for want of `--value` (zkctl.cpp:1260): the
  future location stays that of another index (index_push:166).

Not findings, because no document promises otherwise, but worth knowing:
`KeepsServing` fails when apply and commit interleave without a lock, and when
apply is killed inside a MOVE; `NoResurrection` fails without a lock, when a plan
condemns an instance that the commit has just read from plan_add. A script that
is killed after it has condemned an instance and before it has listed it, or after
it has taken it off plan_del and before it has deleted it, leaves an instance that
no commit will delete (`Forgotten`), and so does a deletion that fails, which is
only logged; `ForgotByMishap` says that there is no other way, and that one
instance at most is lost each time. When a call of the commit fails, `KeepsServing` fails (an unread
plan_add counts as empty) and so does `StartedWasUp` (an unread plan_newlayer). A
group whose connection could not be generated or committed is not tried again
until it changes (crontab_autocommit:13). In the planner: with condemned
instances in the dump the loop that deletes replicas may never end, since a
domain can be chosen for a replica that does not count (`Finishes` is therefore
stated for dumps without them); a move from an offline node to one that has the
partition loses the replica (`ReplicasMet` and `NeverBelowFactor` are stated for
nodes that are all online); and when nothing is placed anywhere and the last
node is offline, `heap[0]` of an empty list raises (`crashed`, which `Finishes`
accepts only then). The planner
chooses the domain before the node, and in it an online node that has the
partition before an offline one that has not; then it exits, although another
domain has an online node without it (placement-plan_generate:381-400).

In zkctl.bin: a dump takes an instance whose state it fails to read for one that
is not of a BS, and succeeds without it (zkctl.cpp:2482; `DumpComplete` is
stated for calls that do not fail); `add` creates the object and sets its data
in another call, so that a failure leaves an object that blocks a retry; a value
before its key is filed under the key "" (zkctl.cpp:1769); a bare option that
wants an argument takes the next word for it; `command get-meta-attr` prints the
value and returns a failure (zkctl.cpp:2628); `service-instance add` succeeds
with the planned state unset if the default cannot be read; the slave node it
checks (zkctl.cpp:2222) may be gone when it adds, and then a dump, which goes
through the slave nodes, does not list it (if the library lets an instance be
added on a node that is not there: that is not in the tree); `service-instance
dump` and `command get-meta-all` take `--pretty` and ignore it; JSON that is no
dictionary is cast to one (undefined, not modelled). The usage of the dispatcher
lists actions the table does not have (semaphores of job and dyndata-meta,
`service dump`, `index list`). In the pushes: two registrations without a lock
get one partition number, two switches or a deploy beside a switch may mix the
future attributes, and `dyndata_push` ends with `exit 0` whatever failed.

## 4. Fairness

`zksh`: weak fairness of each invocation's own steps (a process that can run
runs) and of ZooKeeper ending the session of a zksh that is gone; strong fairness
of the end of a script, which may be disabled again and again while the script
invokes zkctl but does so finitely often. Nobody has to invoke zksh, and no order
is assumed among those that wait for a semaphore, so the progress properties do
not claim that every waiting process gets its turn.

Plans: weak fairness of apply's and commit's steps, of starting the commit (cron
does so every few minutes) and of each installed service coming up; with the
mishap `late`, only of services of a partition that had an instance to begin with,
so that a new layer may stay down for ever. What it then holds back besides the
other new layers, deletions of instances that are not marked, waits with it, and
`PlanCompletes` leaves that regime out; `OthersStart` does not. Applying a plan is
never forced, and plans are finitely many.

Placement: weak fairness of the planner's steps, one process that runs until it
exits.

zkctl: none. A command is finite and waits for nobody; its properties are about
what may have happened when it ends.

## 5. Proofs

`ZkShProofs` proves for every set of invocations, every nesting, all sizes of
`READ` and all faults:

- `TypeCorrect`, `WriteExclusionHolds`, `ReadersShareHolds`, `NoBargingHolds`;
- `RefinesRWLock`: zksh implements RWLock; `RWLockExcludes` shows that RWLock
  means exclusion;
- `SuccessIsEarnedHolds`, if `fork` is not among the faults. That is the one
  exception, and a real one: `zksh_fork_fails` finds the success that nobody has
  earned.

They rest on the assumptions named in ZkSh: `Procs` is finite and `WRITE` admits
one holder (Changes:15 creates the lock with resource-num 1).

The argument: `WriteExclusion` is not inductive. `IInv` adds where an invocation
can be (`Located`), that it holds what its place relies on while its session
lasts (`HoldsWhatItNeeds`), that only open sessions hold anything
(`HeldBySessions`), that WRITE has one holder (`OneWriteHolder`), and that the
READ semaphore is empty under a granted writer (`WriterAlone`). The last is kept
because a reader takes READ only while it holds WRITE, which a granted writer
never gives back before its script is over. `ReadersShare` needs
`WriteGivenBack` and `FreshRet`. The refinement goes step by step:
`ReaderEnters` and `WriterEnters` for the two steps that grant a lock,
`OthersLeave` for those that can only take locks away. For `SuccessIsEarned`,
`StatusInv` says that from `waitpid` on the status of a success is the script's,
and that an invocation that has opened a session exits with success only then.

`PlacementProofs` proves for every finite cluster, every set of dumps, types,
domains and factors (`PlacementAssumption`; nodes have distinct positions):

- `TypeCorrect` and `MapsAlwaysAgree`, by the invariant `IInv`: both, and that
  replicas are unbound only in a full replacement;
- `NeverBelowFactorHolds`: ADD takes no replica (`AddTakesNone`), DEL is made only
  while the partition has too many (`CountedRight` needs the maps to agree: the
  count is made on one map, the property on the other), and a balancing MOVE
  loses none. The last is the point: `MovedIsNew` shows that the partition moved
  is not on the lighter node. The heavier node, having more partitions, has one
  the lighter lacks, and the first place of the sorting tuple prefers such a one;
- `ReplicasAreMet`, by `AdjustedInv`: the partitions already gone through lack
  nothing and have nothing to spare (`Lacking` is 0), the one at hand errs only to
  the side its loop is about. An ADD gives exactly one replica, since the node
  chosen does not have the partition (`AddGivesOne`), a DEL takes one at most
  (`DelTakesOne`), neither touches another partition, and balancing keeps the
  counts when all nodes are online;
- `EvenlyLoadedHolds`: the planner prints only if the node it would take from and
  the one it would give to are not two apart. That this bounds the loads of any
  two nodes needs that the sorting tuples pick the heaviest and the lightest
  (`HeaviestGives`, `LightestTakes`), an offline node with anything on it before
  all others.

`PlanProofs` proves for every finite set of partitions, all nodes, placements and
plans, and every regime, with and without the lock, kills, failing calls and
services that go down:

- `TypeCorrect`, `ListsAreDisjoint`, `PlacedOnceHolds`;
- `OnlyCondemnedAreDeleted`, `NothingIsResurrected` and `OnlyMishapsForget`, under
  the lock, with kills and failing calls.
- `RefinesInstances`: in every regime PlanSystem implements `Instances`.

They rest on the assumptions on `Placed` (at most one instance of a partition on
a node to begin with), `Plans` and `Regimes`, and on `del` not being a partition.

The argument: none of them is inductive, since what apply does next is in `calls`.
`LineInv` says what the calls left of a line look like and what holds before each
of them (`Shape`, kept because `CallsShape` gives it to whole lines and
`TailShape` to what is left of them): an id is put on a list only by a call that
the removal from both lists precedes, an instance is created only where apply has
just seen none, what is put on plan_del has been condemned. `PlaceInv` says that
no two instances of a partition are on one node and that numbers not yet given
out are free: while apply is about to create, only the commit can change the
instances of that node, and it only deletes. `LockInv` says that under the lock
apply and commit do not run at once, that plan_del lists only what is condemned
or gone, and that what the commit is about to start is in plan_add and what it is
about to delete is condemned; `CondemnInv` that what is condemned has left
plan_add but for the calls in between, as long as nothing is killed. With kills,
what the commit is about to start may be condemned, but then it is listed nowhere
else, so it has been forgotten. That the scripts' own steps forget nothing
(`NothingForgotten`) follows from `LineInv` and `PlaceInv`; that a mishap makes them
forget one instance at most (`MishapForgetsOne`), from the mishap alone. `Kinds`
splits the steps into six kinds, of which each part of the invariant needs to know only
the effect (`CallEffect`, `CreateEffect`, `CommitEffect`, `CommitPlaces`,
`CommitLists`).

The refinement needs no more: `CallsLive` shows that a call of apply condemns an
instance that is there or adds one, on a node where `PlaceInv` says the partition
still has none, although the check was an earlier call; `CommitLives` that a step
of the commit starts or deletes at most one, of which `LockInv` and `CondemnInv`
say what the regime promises. All other steps stutter.

`PlanServingProofs` goes on from there, to the instances that serve queries.

- `StartedUnderLockHolds`: the invariant `UpInv` adds to the property that the
  commit, between its list of `plan_add` and its check of the new layers, has for
  every listed instance of a new layer that is not up either put the layer on
  `plan_newlayer` or still to come to it; so past the check there is none
  (`CommitChecks` for the commit's steps, `UpKept` for all). Kills are allowed. A
  service that goes down after it was checked, or a call that fails, breaks it,
  and so the property leaves those out.
- `MovesKeepServing`: `KeepsServing`, for every number of nodes and plans of any
  length that move one partition `q`, or add to it. `MoveInv` says that some
  instance of `q` is new or running, except between the calls of a MOVE that give
  one up and create its successor (`FirstInv`), when the new node is already known
  to be free, so that the creation cannot be refused (`FreeInv`); that a new
  instance is on `plan_add`, or about to be (`NewInv`), so that the commit, when
  it deletes because it has found nothing there, deletes beside one that runs
  (`NoneInv`); and that what is marked, or is being deleted, is never all that
  serves (`MarkInv`), since the commit marks beside an instance it has just
  started (`RunningInv`). The argument for a commit step is `CommitServes`, for a
  call of apply `CallServes`.

  `MovesOnly` names the hypotheses. The run `plan_moves` has a new layer added
  beside the partition that moves, which the theorem leaves out; the theorem has
  services that go down and other partitions in place, which the run leaves out.
  The others cannot be dropped. With two partitions moving, the start of one marks
  the instance of the other (`plan_marks`). Killed inside a MOVE, apply has given
  up an instance without a successor. If the list of `plan_add` fails, the commit
  takes it for empty and deletes. A DEL line may take the last instance, as it is
  told to.

Both invariants were checked by TLC before they were proved: `UpInv` with the
bounds of `plan_any`, `MoveInv` with two partitions placed, three nodes, ADD and
MOVE lines and services that go down.

`ZkctlProofs` proves, for every set of clients, every cluster and all command
lines, of any length, beside each other and beside pushes:

- `CodeCheckedHolds`: no option that the table lets through is unknown to the
  parser;
- `NamesItsObjectHolds`: a command is carried out on the object that the option
  of its own type names. The parser takes any option that begins with the name of
  the type for the object's id, and there are options that begin so and are of
  another type (`AlsoBegin`); the theorem says that no action takes one of them,
  row by row of `g_meta` (`Take`), and that no order, repetition or abbreviation
  makes a difference.

The parser is a recursive function over the command line. Its value is pinned
down without induction: if for some number of options there were no reading,
there would be a least one (`LeastNat`, from the well-foundedness of `<`), which
the reading of one option less contradicts (`ReadingExists`); what every reading
keeps (`Good`) is shown in the same way. The invariant `WellAsked` says that each
invocation runs a request that the parser returned, and each push is at a step of
its script. It rests on `NamesAssumption`, which option names begin with
which types (TLC evaluates it on the names in the code; the provers know nothing
of the characters of a string), and on the part of `ScenarioAssumption` that says
that options are sequences of characters.

`ZkctlProofs` goes on to the steps: which call is made (`WhichCall`), what it can
do to the cluster (`Stores`: nothing, change a part or the next number of one
object, create one, delete one, leave only the root) and how the invocation goes
on (`Keeps`). The next two modules follow one command through its calls while all
others do any such step.

- `DumpCompleteHolds` (`ZkctlDumpProofs`): a placement-plan dump that succeeds,
  none of the calls failing, names every instance that had a state when the dump
  began and has one still, under its own slave node. `DumpInv` says, at each of
  the dump's nested loops, that what is to be found has been found or is on a
  node, or an instance, still to come (`DumpKnows`), for the state of the
  cluster as it is after whatever the others did. It has two hypotheses.
  `NodesThere`: an instance with a state is on a slave node that is there.
  Without it the theorem is false: the dump looks for instances node by node,
  and TLC finds the registration whose node is deleted between its check and its
  add, listed nowhere. `NoneReturns`: no instance that the dump has met is
  deleted and added again before it ends. Without it, it is false too: when a
  service is deleted and registered anew, its instances have the old numbers
  again, perhaps on a node that the dump has passed.
- `AddedMeansCompleteHolds` (`ZkctlAddProofs`): an add that is given meta data and
  succeeds leaves the object, if it is there, with meta data. Calls may fail, with
  and without effect, and clients be killed. `AddInv` says, at each call of an
  add, that the data are still to be read, have been read and are not empty, or
  are with the object (`AddKnows`): an add that cannot set them fails, for every
  type and for the three implementations that differ. `Undisturbed` is the
  hypothesis that nobody else takes the meta data away between the add's setting
  them and its end; without it, that is what happens.

  These rest further on `JsonAssumption`, that the empty text is no JSON
  dictionary and that values are strings, and on `ScenarioAssumption`, that the
  cluster to begin with consists of whole objects. `NodesThere`, `NoneReturns` and
  `Undisturbed` hold in the runs: TLC has checked them, and the invariants but for
  `DumpKnows`, which it cannot evaluate, on the scenarios of `zkctl`.

Only model-checked:

- liveness (`WriterGetsThrough`, `WriteLockComesBack`, `PlanCompletes`,
  `ConnectionFollows`, `Finishes`): fairness needs ENABLED, which is out of the
  prover's reach;
- `RoundRobin`, `OnlineWhole` and `DeployTakes`. They compare ids, locations and
  names of attributes that `index_push` builds by putting strings together, of
  which the provers know nothing: not even that two of them differ;
- `ZkctlSystem.TypeOK`, for the same reason: among its types are strings that are
  concatenations. What the other proofs need of the types is in `WellAsked` and
  `StoreOK`.

## 6. Not modelled

- Of `zkctl.bin`: what is printed beyond the values scripts read (`print_json`,
  usage texts, messages), logging, and the wrapper's own retries.
- `util.cpp`, which sets the ACLs of a tree once by hand, and `version.cpp`.
- `dyndata_push` and `binary_push`: loops of single sets like those of
  `index_push`; the JSON they build is their substance.
- The check and list scripts: they read and print. Finding the script to run and
  quoting its arguments in `zkctl`.
- Of `placement-plan_generate`: the check that a dump is of one group and idc,
  JSON, and the methods `main` never reaches.
- Failing calls of apply: a call that ends the script leaves what a kill there
  leaves, and kills are modelled; one that ends the line only, going on with the
  next, is not.
- The noah calls of the commit, JSON, offline nodes, the validity check of
  `connection_generate`.
- A plan script whose zksh loses its session goes on without a lock; the zksh
  model shows it, the plan runs do not combine the two.
- The Perl tools, init scripts and vendored `json.py`: sequential text
  processing. `tail.pm` is unfinished: `_getline` returns nothing.

## 7. Plan

1. Done: `ZkSh`, `RWLock`, `ZkShProofs`; `PlanStore`, `PlanApply`, `PlanCommit`,
   `PlanSystem`, `PlanProofs`; `Placement`, `PlacementProofs`; zkctl.bin from its
   options to its calls, `IndexPush`, `ZkctlSystem`.
2. Done: `SuccessIsEarned`, `ReplicasMet`, `EvenlyLoaded`; `PlanServingProofs`;
   the parser, `DumpComplete` and `AddedMeansComplete`; `Instances`.
3. `IndexPush` with ids and locations as values instead of strings, so that
   `OnlineWhole` and `DeployTakes` can be proved.
4. `Connection`: generate, check and commit with failures; two overlapping cron
   runs; failing calls of apply; partition names that contain one another.
5. `dyndata_push` and `binary_push` beside an index push.
