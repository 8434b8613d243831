------------------------------- MODULE RWLock -------------------------------
(***************************************************************************)
(* What zksh promises to a console user: `./zkctl -r ...` shares the       *)
(* cluster with other readers, `./zkctl -w ...` has it alone.  The module  *)
(* knows nothing of ZooKeeper; ZkSh is shown to implement it.              *)
(***************************************************************************)
CONSTANT Procs          \* invocations of zksh

VARIABLES readers,      \* invocations that were granted the read lock
          writers       \* invocations that were granted the write lock

rwVars == <<readers, writers>>

Init == readers = {} /\ writers = {}

EnterRead(p) ==
  /\ writers = {}
  /\ readers' = readers \cup {p}
  /\ UNCHANGED writers

EnterWrite(p) ==
  /\ readers = {} /\ writers = {}
  /\ writers' = {p}
  /\ UNCHANGED readers

\* The script is over, or the session that carried the lock is.
Leave(p) ==
  /\ p \in readers \cup writers
  /\ readers' = readers \ {p}
  /\ writers' = writers \ {p}

Next == \E p \in Procs : EnterRead(p) \/ EnterWrite(p) \/ Leave(p)

Spec == Init /\ [][Next]_rwVars
-----------------------------------------------------------------------------
\* One writer at most, and none beside a reader.
Exclusion ==
  /\ readers \subseteq Procs /\ writers \subseteq Procs
  /\ \A p, q \in writers : p = q
  /\ writers # {} => readers = {}
=============================================================================
