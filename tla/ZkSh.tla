-------------------------------- MODULE ZkSh --------------------------------
(***************************************************************************)
(* zksh, the interpreter on the first line of the `zkctl` script: it takes *)
(* a read lock, a write lock or no lock on the cluster, runs the script in *)
(* a child process, releases the lock and passes the exit status on.       *)
(*                                                                         *)
(* The lock is built from two ZooKeeper semaphores.  A reader holds WRITE  *)
(* while it acquires READ; a writer keeps WRITE and polls until READ has   *)
(* no holder.  The semaphores, the sessions that own them and the script   *)
(* are external: they are modelled as zksh uses them.                      *)
(***************************************************************************)
EXTENDS Integers, Sequences, FiniteSets

CONSTANTS
  Procs,         \* slots in which zksh is invoked, again and again
  Parent,        \* Parent[p]: the invocation whose script invokes p, or Nobody
  Nobody,
  OptionLists,   \* lock options a user may type, as sequences of characters
  NestedOptions, \* the ones a script passes to the zksh it invokes
  ResourceNum,   \* semaphore |-> how many holders it admits
  Faults         \* what may go wrong, a subset of FaultKinds

\* "call": a ZooKeeper call or load_conf fails; "fork": fork() returns -1;
\* "kill": zksh is killed; "expire": the session of a live zksh ends.
FaultKinds == {"call", "fork", "kill", "expire"}

ZKSH_READ_LOCK  == "READ"
ZKSH_WRITE_LOCK == "WRITE"
Semaphores == {ZKSH_READ_LOCK, ZKSH_WRITE_LOCK}

TYPE_NO_LOCK    == 0
TYPE_READ_LOCK  == 1
TYPE_WRITE_LOCK == 2

ASSUME ProcsAssumption ==
  /\ IsFiniteSet(Procs)
  /\ Nobody \notin Procs
  /\ Parent \in [Procs -> Procs \cup {Nobody}]

ASSUME OptionsAssumption ==
  OptionLists \cup NestedOptions \subseteq Seq({"s", "r", "w", "v", "d"})

\* Changes:15 creates the lock with --resource-num=1.
ASSUME ResourceAssumption ==
  /\ ResourceNum \in [Semaphores -> Nat \ {0}]
  /\ ResourceNum[ZKSH_WRITE_LOCK] = 1

ASSUME FaultsAssumption == Faults \subseteq FaultKinds

VARIABLES
  pc,        \* where each zksh is
  m_lock,    \* -1, or the lock type parsed from the options
  ret,       \* the local `ret` of read_lock_zk
  holders,   \* semaphore |-> the invocations that hold it
  session,   \* each zksh's ZooKeeper session
  script,    \* the child process
  status,    \* the child's status as main sees it
  exit       \* what zksh returns to its caller

vars == <<pc, m_lock, ret, holders, session, script, status, exit>>

Labels == {"idle", "lock_zk", "r_wlock", "r_rlock", "r_release", "w_wlock",
           "w_readers", "w_sleep", "w_giveup", "fork", "wait", "unlock", "exited"}

TypeOK ==
  /\ pc \in [Procs -> Labels]
  /\ m_lock \in [Procs -> {-1, TYPE_NO_LOCK, TYPE_READ_LOCK, TYPE_WRITE_LOCK}]
  /\ ret \in [Procs -> {-1, 0}]
  /\ holders \in [Semaphores -> SUBSET Procs]
  /\ session \in [Procs -> {"none", "open", "lost"}]
  /\ script \in [Procs -> {"none", "running", "ok", "failed"}]
  /\ status \in [Procs -> {"ok", "failed"}]
  /\ exit \in [Procs -> {"none", "success", "failure", "killed"}]

Init ==
  /\ pc = [p \in Procs |-> "idle"]
  /\ m_lock = [p \in Procs |-> -1]
  /\ ret = [p \in Procs |-> 0]
  /\ holders = [s \in Semaphores |-> {}]
  /\ session = [p \in Procs |-> "none"]
  /\ script = [p \in Procs |-> "none"]
  /\ status = [p \in Procs |-> "ok"]
  /\ exit = [p \in Procs |-> "none"]

Goto(p, label) == pc' = [pc EXCEPT ![p] = label]

\* main returns, or parse_opt calls exit().
Exit(p, code) == Goto(p, "exited") /\ exit' = [exit EXCEPT ![p] = code]
-----------------------------------------------------------------------------
(***************************************************************************)
(* The semaphores of the zkwrapper library.  acquire_semaphore blocks      *)
(* until there is room; a call fails when the session is gone, and may     *)
(* fail for reasons of its own.                                            *)
(***************************************************************************)
CallMayFail(p) == session[p] # "open" \/ "call" \in Faults

Acquire(p, s) ==
  /\ session[p] = "open"
  /\ Cardinality(holders[s]) < ResourceNum[s]
  /\ holders' = [holders EXCEPT ![s] = @ \cup {p}]

Release(p, s) ==
  /\ session[p] = "open"
  /\ holders' = [holders EXCEPT ![s] = @ \ {p}]
-----------------------------------------------------------------------------
(***************************************************************************)
(* parse_opt: the last of -s, -r and -w wins, -v prints the version and    *)
(* exits at once, no lock option at all is an error.                       *)
(***************************************************************************)
LockType == [s |-> TYPE_NO_LOCK, r |-> TYPE_READ_LOCK, w |-> TYPE_WRITE_LOCK]

parse_opt(opts, lock) ==
  \/ /\ lock = -1
     /\ \A i \in 1..Len(opts) : opts[i] \notin DOMAIN LockType
  \/ \E i \in 1..Len(opts) :
       /\ opts[i] \in DOMAIN LockType
       /\ lock = LockType[opts[i]]
       /\ \A j \in i+1..Len(opts) : opts[j] \notin DOMAIN LockType

Has(opts, o) == \E i \in 1..Len(opts) : opts[i] = o

OptionsOf(p) == IF Parent[p] = Nobody THEN OptionLists ELSE NestedOptions

\* main up to the call of lock_zk: parse_opt, then load_conf, which may fail.
Start(p) ==
  /\ pc[p] = "idle"
  /\ Parent[p] # Nobody => script[Parent[p]] = "running"
  /\ \E opts \in OptionsOf(p), lock \in {-1, TYPE_NO_LOCK, TYPE_READ_LOCK, TYPE_WRITE_LOCK} :
       /\ parse_opt(opts, lock)
       /\ m_lock' = [m_lock EXCEPT ![p] = lock]
       /\ \/ Has(opts, "v") /\ Exit(p, "success")
          \/ ~Has(opts, "v") /\ lock = -1 /\ Exit(p, "failure")
          \/ ~Has(opts, "v") /\ lock # -1 /\ Goto(p, "lock_zk") /\ UNCHANGED exit
          \/ ~Has(opts, "v") /\ lock # -1 /\ "call" \in Faults /\ Exit(p, "failure")
  /\ UNCHANGED <<ret, holders, session, script, status>>

\* lock_zk: connect if a lock is needed, then dispatch on the lock type.
lock_zk(p) ==
  /\ pc[p] = "lock_zk"
  /\ \/ /\ m_lock[p] = TYPE_NO_LOCK
        /\ Goto(p, "fork")
        /\ UNCHANGED <<session, exit>>
     \/ /\ m_lock[p] # TYPE_NO_LOCK
        /\ session' = [session EXCEPT ![p] = "open"]
        /\ Goto(p, IF m_lock[p] = TYPE_READ_LOCK THEN "r_wlock" ELSE "w_wlock")
        /\ UNCHANGED exit
     \/ /\ m_lock[p] # TYPE_NO_LOCK /\ "call" \in Faults
        /\ Exit(p, "failure")
        /\ UNCHANGED session
  /\ UNCHANGED <<m_lock, ret, holders, script, status>>
-----------------------------------------------------------------------------
\* Mutant: a reader that does not take WRITE first.
r_acquire_wlock_skipped(p) ==
  /\ pc[p] = "r_wlock"
  /\ Goto(p, "r_rlock")
  /\ UNCHANGED <<m_lock, ret, holders, session, script, status, exit>>

\* read_lock_zk, first call: acquire WRITE; a failure ends zksh.
r_acquire_wlock(p) ==
  /\ pc[p] = "r_wlock"
  /\ \/ Acquire(p, ZKSH_WRITE_LOCK) /\ Goto(p, "r_rlock") /\ UNCHANGED exit
     \/ CallMayFail(p) /\ Exit(p, "failure") /\ UNCHANGED holders
  /\ UNCHANGED <<m_lock, ret, session, script, status>>

\* read_lock_zk, second call: acquire READ; a failure is only remembered.
r_acquire_rlock(p) ==
  /\ pc[p] = "r_rlock"
  /\ \/ Acquire(p, ZKSH_READ_LOCK) /\ UNCHANGED ret
     \/ CallMayFail(p) /\ ret' = [ret EXCEPT ![p] = -1] /\ UNCHANGED holders
  /\ Goto(p, "r_release")
  /\ UNCHANGED <<m_lock, session, script, status, exit>>

\* Mutant: the result of release_semaphore is not looked at.
r_release_wlock_unchecked(p) ==
  /\ pc[p] = "r_release"
  /\ \/ Release(p, ZKSH_WRITE_LOCK)
     \/ CallMayFail(p) /\ UNCHANGED holders
  /\ IF ret[p] = 0 THEN Goto(p, "fork") /\ UNCHANGED exit ELSE Exit(p, "failure")
  /\ UNCHANGED <<m_lock, ret, session, script, status>>

\* read_lock_zk, third call: release WRITE, whatever the second one gave; a
\* failure ends zksh, with the semaphores left to its session.
r_release_wlock(p) ==
  /\ pc[p] = "r_release"
  /\ \/ /\ Release(p, ZKSH_WRITE_LOCK)
        /\ IF ret[p] = 0 THEN Goto(p, "fork") /\ UNCHANGED exit
                         ELSE Exit(p, "failure")
     \/ CallMayFail(p) /\ Exit(p, "failure") /\ UNCHANGED holders
  /\ UNCHANGED <<m_lock, ret, session, script, status>>

\* write_lock_zk: acquire WRITE and keep it.
w_acquire_wlock(p) ==
  /\ pc[p] = "w_wlock"
  /\ \/ Acquire(p, ZKSH_WRITE_LOCK) /\ Goto(p, "w_readers") /\ UNCHANGED exit
     \/ CallMayFail(p) /\ Exit(p, "failure") /\ UNCHANGED holders
  /\ UNCHANGED <<m_lock, ret, session, script, status>>

\* Mutant: a failed get_semaphore_holders leaves `readers` empty, and the loop
\* takes that for "no reader".
w_poll_readers_error_is_empty(p) ==
  /\ pc[p] = "w_readers"
  /\ \/ /\ session[p] = "open"
        /\ Goto(p, IF holders[ZKSH_READ_LOCK] = {} THEN "fork" ELSE "w_sleep")
     \/ CallMayFail(p) /\ Goto(p, "fork")
  /\ UNCHANGED <<m_lock, ret, holders, session, script, status, exit>>

\* Mutant: WRITE is released when the readers are gone, as read_lock_zk does.
w_poll_readers_releases(p) ==
  /\ pc[p] = "w_readers"
  /\ holders[ZKSH_READ_LOCK] = {}
  /\ Release(p, ZKSH_WRITE_LOCK)
  /\ Goto(p, "fork")
  /\ UNCHANGED <<m_lock, ret, session, script, status, exit>>

\* Mutant: the loop polls the semaphore the writer itself holds.
w_poll_writers(p) ==
  /\ pc[p] = "w_readers"
  /\ \/ /\ session[p] = "open"
        /\ Goto(p, IF holders[ZKSH_WRITE_LOCK] = {} THEN "fork" ELSE "w_sleep")
     \/ CallMayFail(p) /\ Goto(p, "w_giveup")
  /\ UNCHANGED <<m_lock, ret, holders, session, script, status, exit>>

\* write_lock_zk, one turn of the loop: proceed only when READ has no holder.
w_poll_readers(p) ==
  /\ pc[p] = "w_readers"
  /\ \/ /\ session[p] = "open"
        /\ Goto(p, IF holders[ZKSH_READ_LOCK] = {} THEN "fork" ELSE "w_sleep")
     \/ CallMayFail(p) /\ Goto(p, "w_giveup")
  /\ UNCHANGED <<m_lock, ret, holders, session, script, status, exit>>

w_sleep(p) ==
  /\ pc[p] = "w_sleep"
  /\ Goto(p, "w_readers")
  /\ UNCHANGED <<m_lock, ret, holders, session, script, status, exit>>

\* write_lock_zk after a failed poll: release WRITE, the result is not looked at.
w_give_up(p) ==
  /\ pc[p] = "w_giveup"
  /\ \/ Release(p, ZKSH_WRITE_LOCK)
     \/ CallMayFail(p) /\ UNCHANGED holders
  /\ Exit(p, "failure")
  /\ UNCHANGED <<m_lock, ret, session, script, status>>
-----------------------------------------------------------------------------
\* main: fork.  When it fails pid is -1, waitpid(-1) has no child to wait for
\* and returns -1, the loop ends, and `status` still has its initial 0.
fork(p) ==
  /\ pc[p] = "fork"
  /\ \/ Goto(p, "wait") /\ script' = [script EXCEPT ![p] = "running"]
     \/ "fork" \in Faults /\ Goto(p, "unlock") /\ UNCHANGED script
  /\ UNCHANGED <<m_lock, ret, holders, session, status, exit>>

\* The script ends (or could not be executed, which is a failure), when every
\* zksh it invoked has ended.  It does not need its zksh to be alive.
ScriptEnds(p) ==
  /\ script[p] = "running"
  /\ \A q \in Procs : Parent[q] = p => pc[q] \in {"idle", "exited"}
  /\ \E r \in {"ok", "failed"} : script' = [script EXCEPT ![p] = r]
  /\ UNCHANGED <<pc, m_lock, ret, holders, session, status, exit>>

\* Mutant: waitpid with WNOHANG, the script may still run.
waitpid_nohang(p) ==
  /\ pc[p] = "wait"
  /\ status' = [status EXCEPT ![p] = script[p]]
  /\ Goto(p, "unlock")
  /\ UNCHANGED <<m_lock, ret, holders, session, script, exit>>

\* Mutant: the loop around waitpid looks at `status` only when the script
\* succeeded, and otherwise leaves the 0 it was initialised with.
waitpid_status_lost(p) ==
  /\ pc[p] = "wait"
  /\ script[p] \in {"ok", "failed"}
  /\ Goto(p, "unlock")
  /\ UNCHANGED <<m_lock, ret, holders, session, script, status, exit>>

\* Mutant: SIGCHLD is ignored, waitpid fails with ECHILD and the loop goes on.
waitpid_echild(p) ==
  pc[p] = "wait" /\ UNCHANGED vars

\* main: waitpid returns the child.
waitpid(p) ==
  /\ pc[p] = "wait"
  /\ script[p] \in {"ok", "failed"}
  /\ status' = [status EXCEPT ![p] = script[p]]
  /\ Goto(p, "unlock")
  /\ UNCHANGED <<m_lock, ret, holders, session, script, exit>>

\* The semaphore unlock_zk releases for each lock type.
Held(lock) == IF lock = TYPE_READ_LOCK THEN ZKSH_READ_LOCK ELSE ZKSH_WRITE_LOCK

\* main: unlock_zk, whose failure is only logged, and the exit status.
unlock_zk(p) ==
  /\ pc[p] = "unlock"
  /\ \/ m_lock[p] = TYPE_NO_LOCK /\ UNCHANGED holders
     \/ m_lock[p] # TYPE_NO_LOCK /\ Release(p, Held(m_lock[p]))
     \/ m_lock[p] # TYPE_NO_LOCK /\ CallMayFail(p) /\ UNCHANGED holders
  /\ Exit(p, IF status[p] = "ok" THEN "success" ELSE "failure")
  /\ UNCHANGED <<m_lock, ret, session, script, status>>
-----------------------------------------------------------------------------
\* zksh dies; its script, if it has one, goes on, and so does its session
\* until ZooKeeper notices.
Kill(p) ==
  /\ "kill" \in Faults
  /\ pc[p] \notin {"idle", "exited"}
  /\ Exit(p, "killed")
  /\ UNCHANGED <<m_lock, ret, holders, session, script, status>>

\* ZooKeeper ends a session and drops what it held: soon after its zksh has
\* gone, or at any time if sessions may expire.
SessionEnds(p) ==
  /\ session[p] = "open"
  /\ pc[p] = "exited" \/ "expire" \in Faults
  /\ session' = [session EXCEPT ![p] = "lost"]
  /\ holders' = [s \in Semaphores |-> holders[s] \ {p}]
  /\ UNCHANGED <<pc, m_lock, ret, script, status, exit>>

\* The slot is used for another invocation.
Again(p) ==
  /\ pc[p] = "exited" /\ session[p] # "open" /\ script[p] # "running"
  /\ Goto(p, "idle")
  /\ m_lock' = [m_lock EXCEPT ![p] = -1]
  /\ ret' = [ret EXCEPT ![p] = 0]
  /\ session' = [session EXCEPT ![p] = "none"]
  /\ script' = [script EXCEPT ![p] = "none"]
  /\ status' = [status EXCEPT ![p] = "ok"]
  /\ exit' = [exit EXCEPT ![p] = "none"]
  /\ UNCHANGED holders

Step(p) ==
  \/ lock_zk(p)
  \/ r_acquire_wlock(p) \/ r_acquire_rlock(p) \/ r_release_wlock(p)
  \/ w_acquire_wlock(p) \/ w_poll_readers(p) \/ w_sleep(p) \/ w_give_up(p)
  \/ fork(p) \/ waitpid(p) \/ unlock_zk(p)

Next ==
  \E p \in Procs :
    Start(p) \/ Step(p) \/ ScriptEnds(p) \/ Kill(p) \/ SessionEnds(p) \/ Again(p)

Spec == Init /\ [][Next]_vars

\* A zksh that can take a step takes it, and ZooKeeper ends the session of a
\* zksh that is gone.  Scripts end: they invoke zkctl finitely often, so a
\* script that could end again and again does (strong fairness).  Nobody is
\* obliged to invoke zksh, and no order is assumed among those who wait for a
\* semaphore.
Fairness ==
  \A p \in Procs :
    /\ WF_vars(Step(p))
    /\ SF_vars(ScriptEnds(p))
    /\ WF_vars(pc[p] = "exited" /\ SessionEnds(p))

FairSpec == Spec /\ Fairness
-----------------------------------------------------------------------------
\* The script of p runs under a lock whose session ZooKeeper still honours.
UnderLock(p) ==
  script[p] = "running" /\ m_lock[p] # TYPE_NO_LOCK /\ session[p] = "open"

\* Two scripts run at the same time under locks only if both locks are read
\* locks.  It covers a script whose zksh was killed, as long as ZooKeeper has
\* not ended the session (lock_zk, main).
WriteExclusion ==
  \A p, q \in Procs :
    p # q /\ UnderLock(p) /\ UnderLock(q) =>
      m_lock[p] = TYPE_READ_LOCK /\ m_lock[q] = TYPE_READ_LOCK

\* A reader that runs its script has given WRITE back, so that it keeps no
\* other reader out: read_lock_zk does not let a failed release through.
ReadersShare ==
  \A p \in Procs :
    script[p] = "running" /\ m_lock[p] = TYPE_READ_LOCK =>
      p \notin holders[ZKSH_WRITE_LOCK]

\* While a writer waits for the readers to go, none can join them.
NoBarging ==
  [][\A p \in Procs :
       pc[p] \in {"w_readers", "w_sleep"} /\ session[p] = "open" =>
         holders'[ZKSH_READ_LOCK] \subseteq holders[ZKSH_READ_LOCK]]_vars

\* zksh returns EXIT_SUCCESS for a lock type only when the script it was given
\* has run to a successful end.
SuccessIsEarned ==
  \A p \in Procs :
    exit[p] = "success" /\ pc[p] = "exited" /\ session[p] # "none" => script[p] = "ok"

\* A writer that has WRITE stops waiting for the readers.
WriterGetsThrough ==
  \A p \in Procs :
    pc[p] \in {"w_readers", "w_sleep"} ~> pc[p] \notin {"w_readers", "w_sleep"}

\* The write semaphore always becomes free again, so that somebody who waits
\* for it can go on.
WriteLockComesBack == []<>(holders[ZKSH_WRITE_LOCK] = {})
-----------------------------------------------------------------------------
\* The lock as its users see it: granted from the last call of lock_zk until
\* the script is over, or until ZooKeeper ends the session.
Granted(p) ==
  /\ session[p] = "open"
  /\ pc[p] \in {"fork", "wait", "unlock"} \/ script[p] = "running"

RW == INSTANCE RWLock WITH
        readers <- {p \in Procs : Granted(p) /\ m_lock[p] = TYPE_READ_LOCK},
        writers <- {p \in Procs : Granted(p) /\ m_lock[p] = TYPE_WRITE_LOCK}

\* The semaphore protocol implements the readers-writer lock.
ImplementsRWLock == RW!Spec
=============================================================================
